---- MODULE Spec2Model ----
(***************************************************************************)
(* A model of the send path of the bulk e-mail sender:                     *)
(*   - SMTPManager   (src/src/smtp_manager/smtp_account.py): the pool of   *)
(*     rate-limited accounts, round-robin selection, connections and the   *)
(*     failure counter that deactivates an account;                        *)
(*   - EmailSender   (src/src/email_sender/email_sender.py): one send to   *)
(*     one contact, the throttled batch and the campaign;                  *)
(*   - FollowUpScheduler (src/src/scheduler/followup_scheduler.py): the    *)
(*     follow-up rules, the due pairs and the follow-up run.               *)
(*                                                                         *)
(* Time is a counter of ticks.  An hour is TicksPerHour ticks and a day is *)
(* HoursPerDay hours, so that hour and day boundaries are crossed within   *)
(* the horizon MaxNow.                                                     *)
(***************************************************************************)
EXTENDS Integers, Sequences, FiniteSets, TLC

\* ------------------------------------------------------------------ bounds
MaxNow == 5
TicksPerHour == 2
HoursPerDay == 2
MaxRuns == 2
MaxDays == 3
MaxCloses == 2

\* ------------------------------------------------------- program constants
\* SMTPAccount.__post_init__: self.max_failures = 5
max_failures == 5
\* SMTPAccount.__post_init__: self.last_sent_time = None
NoTime == -1

VARIABLES
    now,            \* datetime.now(), in ticks
    accounts,       \* SMTPManager.accounts: sequence of SMTPAccount records
    current_index,  \* SMTPManager.current_index (0-based, as in the code)
    connections,    \* SMTPManager.connections: per account "absent" | "none" | "open"
    pc,             \* position of the run inside send_to_contact: "idle" | "selected"
    selected,       \* the account get_available_account returned (position, 0 = None)
    outcome,        \* the last SendResult of send_to_contact
    scanned,        \* history: positions the last get_available_account examined
    selLog,         \* history: the latest calls made while every account was available
    lastRet,        \* history: the account the latest successful selection returned
    consec,         \* history: failed attempts of each account since its last success
    attempt,        \* history: the bodies and the network calls of the latest send_email
    closeLog,       \* history: the close_all_connections calls since the latest send
    faulty,         \* environment: the accounts whose attempts may fail
    contacts,       \* ContactManager.contacts: sequence of Contact records
    rules,          \* FollowUpScheduler.rules, in add_rule order
    followup_history, \* FollowUpScheduler.followup_history: per contact, its entries
    rpc,            \* the caller: "idle" | "batch" | "batch_done" | "fu" | "fu_done"
    runs,           \* number of campaigns and follow-up runs started
    max_emails,     \* send_campaign: <<>> for None, <<m>> for max_emails = m
    startContacts,  \* history: the contacts as they were when the run started
    bList,          \* send_batch: the contacts argument (positions in contacts)
    bI,             \* send_batch / process_followups: entries of the loop done
    results,        \* send_batch / process_followups: the results list
    cbLog,          \* the invocations of progress_callback, in order
    slept,          \* send_batch: the sleeps of the latest iteration
    fuPairs,        \* process_followups: contacts_to_followup
    current_date,   \* get_contacts_for_followup: current_date
    stats,          \* the statistics the latest run returned
    triggered,      \* <<b>> when the latest should_trigger returned b, <<>> before
    cancelled,      \* the caller: the run it asked to cancel (by number), 0 for none
    tpc,            \* concurrent runs: the position of each in send_to_contact
    tsel,           \* concurrent runs: the account each got from get_available_account
    store,          \* Storage: the campaign, the smtp_accounts and the contacts
    req,            \* the start_campaign requests: "new" | "started" | "rejected"
    thr,            \* the run_campaign threads: position, pool and contacts of each
    active_campaigns, \* campaigns.py active_campaigns: the thread entered, 0 for none
    ledger          \* history: the stored contacts at the start and the messages sent

stepVars == <<pc, selected, outcome, scanned, selLog, lastRet, consec, attempt,
              closeLog>>
callerVars == <<contacts, rules, followup_history, rpc, runs, max_emails,
                startContacts, bList, bI, results, cbLog, slept, fuPairs,
                current_date, stats>>
vars == <<now, accounts, current_index, connections, pc, selected, outcome,
          scanned, selLog, lastRet, consec, attempt, closeLog, faulty,
          contacts, rules, followup_history, rpc, runs, max_emails,
          startContacts, bList, bI, results, cbLog, slept, fuPairs,
          current_date, stats, triggered, cancelled, tpc, tsel, store, req, thr,
          active_campaigns, ledger>>

\* The variables of the other specifications.
concVars == <<tpc, tsel>>
appVars == <<store, req, thr, active_campaigns, ledger>>
signalVars == <<cancelled>>
extraVars == <<triggered, cancelled, tpc, tsel, store, req, thr,
               active_campaigns, ledger>>

\* ------------------------------------------------------------------- clock
TicksPerDay == TicksPerHour * HoursPerDay
\* now.date()
Date(t) == t \div TicksPerDay
\* now.replace(minute=0, second=0, microsecond=0): the hour, date included
Hour(t) == t \div TicksPerHour

\* -------------------------------------------------------------- SMTPAccount
\* The configuration of one account: daily_limit, hourly_limit,
\* delay_between_emails.
Cfg(d, h, w) == [daily_limit |-> d, hourly_limit |-> h, delay_between_emails |-> w]

\* The pools the model is run on.  accts: the accounts handed to SMTPManager, in
\* order.  faulty: the accounts whose attempts may fail (the templates do not
\* render, the server refuses the connection or the message, or the rendered
\* bodies are empty); the attempts made through the other accounts succeed.
Pool(a, f) == [accts |-> a, faulty |-> f]

PoolConfigs ==
    { Pool(<<Cfg(1, 1, 0)>>, {1}),
      Pool(<<Cfg(2, 1, 2)>>, {1}),
      Pool(<<Cfg(2, 2, 1), Cfg(1, 2, 0)>>, {1}),
      Pool(<<Cfg(0, 1, 0), Cfg(2, 0, 0)>>, {}),
      Pool(<<Cfg(2, 2, 0), Cfg(2, 2, 0), Cfg(1, 1, 0)>>, {}) }

\* SMTPAccount(...) followed by __post_init__, at time t
NewAccount(cfg, t) ==
    [ daily_limit |-> cfg.daily_limit,
      hourly_limit |-> cfg.hourly_limit,
      delay_between_emails |-> cfg.delay_between_emails,
      sent_today |-> 0,
      sent_this_hour |-> 0,
      last_reset_date |-> Date(t),
      last_reset_hour |-> Hour(t),
      last_sent_time |-> NoTime,
      is_active |-> TRUE,
      failure_count |-> 0 ]

\* -------------------------------------------------------------- SMTPManager
\* Mutant of ResetAccount: a new day also clears the failure state.
ResetAccount_reactivates(a, t) ==
    LET a1 == IF Date(t) > a.last_reset_date
              THEN [a EXCEPT !.sent_today = 0, !.last_reset_date = Date(t),
                             !.is_active = TRUE, !.failure_count = 0]
              ELSE a
    IN  IF Hour(t) > a1.last_reset_hour
        THEN [a1 EXCEPT !.sent_this_hour = 0, !.last_reset_hour = Hour(t)]
        ELSE a1

\* Mutant of ResetAccount: the hourly counter is reset only on a new day.
ResetAccount_no_hourly(a, t) ==
    IF Date(t) > a.last_reset_date
    THEN [a EXCEPT !.sent_today = 0, !.last_reset_date = Date(t),
                   !.sent_this_hour = 0, !.last_reset_hour = Hour(t)]
    ELSE a

\* The body of the loop of _reset_limits_if_needed, for one account.
ResetAccount(a, t) ==
    LET a1 == IF Date(t) > a.last_reset_date
              THEN [a EXCEPT !.sent_today = 0, !.last_reset_date = Date(t)]
              ELSE a
    IN  IF Hour(t) > a1.last_reset_hour
        THEN [a1 EXCEPT !.sent_this_hour = 0, !.last_reset_hour = Hour(t)]
        ELSE a1

reset_limits_if_needed(accs, t) ==
    [i \in DOMAIN accs |-> ResetAccount(accs[i], t)]

\* Mutant of is_account_available: the daily limit is compared with > .
is_account_available_daily_off_by_one(account, t) ==
    IF ~account.is_active THEN FALSE
    ELSE IF account.sent_today > account.daily_limit THEN FALSE
    ELSE IF account.sent_this_hour >= account.hourly_limit THEN FALSE
    ELSE IF account.last_sent_time # NoTime
            /\ t - account.last_sent_time < account.delay_between_emails THEN FALSE
    ELSE TRUE

\* Mutant of is_account_available: the minimum delay is not checked.
is_account_available_no_delay(account, t) ==
    IF ~account.is_active THEN FALSE
    ELSE IF account.sent_today >= account.daily_limit THEN FALSE
    ELSE IF account.sent_this_hour >= account.hourly_limit THEN FALSE
    ELSE TRUE

\* Mutant of is_account_available: the delay is accepted one second early.
is_account_available_short_delay(account, t) ==
    IF ~account.is_active THEN FALSE
    ELSE IF account.sent_today >= account.daily_limit THEN FALSE
    ELSE IF account.sent_this_hour >= account.hourly_limit THEN FALSE
    ELSE IF account.last_sent_time # NoTime
            /\ t - account.last_sent_time < account.delay_between_emails - 1 THEN FALSE
    ELSE TRUE

\* Mutant of is_account_available: a deactivated account is not held back.
is_account_available_ignores_active(account, t) ==
    IF account.sent_today >= account.daily_limit THEN FALSE
    ELSE IF account.sent_this_hour >= account.hourly_limit THEN FALSE
    ELSE IF account.last_sent_time # NoTime
            /\ t - account.last_sent_time < account.delay_between_emails THEN FALSE
    ELSE TRUE

is_account_available(account, t) ==
    IF ~account.is_active THEN FALSE
    ELSE IF account.sent_today >= account.daily_limit THEN FALSE
    ELSE IF account.sent_this_hour >= account.hourly_limit THEN FALSE
    ELSE IF account.last_sent_time # NoTime
            /\ t - account.last_sent_time < account.delay_between_emails THEN FALSE
    ELSE TRUE

\* Mutant of ScanFrom: current_index moves on only past an unavailable account.
RECURSIVE ScanFrom_index_stays(_, _, _, _, _)
ScanFrom_index_stays(accs, idx, attempts, seen, t) ==
    IF attempts >= Len(accs)
    THEN [ret |-> 0, idx |-> idx, seen |-> seen]
    ELSE LET account == accs[idx + 1]
             nidx == (idx + 1) % Len(accs)
         IN  IF is_account_available(account, t)
             THEN [ret |-> idx + 1, idx |-> idx, seen |-> Append(seen, idx + 1)]
             ELSE ScanFrom_index_stays(accs, nidx, attempts + 1, Append(seen, idx + 1), t)

\* The while loop of get_available_account.  idx is current_index; the result
\* is the position (1-based) of the account returned, 0 for None, the new
\* current_index and the positions examined, in order.
RECURSIVE ScanFrom(_, _, _, _, _)
ScanFrom(accs, idx, attempts, seen, t) ==
    IF attempts >= Len(accs)
    THEN [ret |-> 0, idx |-> idx, seen |-> seen]
    ELSE LET account == accs[idx + 1]
             nidx == (idx + 1) % Len(accs)
         IN  IF is_account_available(account, t)
             THEN [ret |-> idx + 1, idx |-> nidx, seen |-> Append(seen, idx + 1)]
             ELSE ScanFrom(accs, nidx, attempts + 1, Append(seen, idx + 1), t)

get_available_account(accs, idx, t) ==
    LET r == reset_limits_if_needed(accs, t)
        s == ScanFrom(r, idx, 0, <<>>, t)
    IN  [accounts |-> r, ret |-> s.ret, current_index |-> s.idx, seen |-> s.seen]

\* The except branch of get_connection: the connection attempt failed.
connection_failed(a) ==
    LET n == a.failure_count + 1
    IN  [a EXCEPT !.failure_count = n,
                  !.is_active = IF n >= max_failures THEN FALSE ELSE a.is_active]

\* A variant of the except branch of send_email that counts the attempt as sent.
send_failed_counts(a) ==
    LET n == a.failure_count + 1
    IN  [a EXCEPT !.failure_count = n,
                  !.is_active = IF n >= max_failures THEN FALSE ELSE a.is_active,
                  !.sent_today = a.sent_today + 1,
                  !.sent_this_hour = a.sent_this_hour + 1]

\* The except branch of send_email: building or submitting the message failed.
send_failed(a) ==
    LET n == a.failure_count + 1
    IN  [a EXCEPT !.failure_count = n,
                  !.is_active = IF n >= max_failures THEN FALSE ELSE a.is_active]

\* Mutant of send_succeeded: failure_count is not reset on success.
send_succeeded_keeps_failures(a, t) ==
    [a EXCEPT !.sent_today = a.sent_today + 1,
              !.sent_this_hour = a.sent_this_hour + 1,
              !.last_sent_time = t]

\* The statistics update of send_email after send_message returned.
send_succeeded(a, t) ==
    [a EXCEPT !.sent_today = a.sent_today + 1,
              !.sent_this_hour = a.sent_this_hour + 1,
              !.last_sent_time = t,
              !.failure_count = 0]

\* What the network does during one attempt: whether the NOOP probe of a cached
\* connection, a new connect+login, and send_message succeed.
Net == [noop : BOOLEAN, connect : BOOLEAN, send : BOOLEAN]
NetWorks == [noop : BOOLEAN, connect : {TRUE}, send : {TRUE}]

\* get_connection for one account; c is its entry of the connection cache.
get_connection(c, a, net) ==
    IF c = "open" /\ net.noop
    THEN [conn |-> "open", acct |-> a, ok |-> TRUE]
    ELSE LET c1 == IF c = "open" THEN "none" ELSE c
         IN  IF net.connect
             THEN [conn |-> "open", acct |-> a, ok |-> TRUE]
             ELSE [conn |-> c1, acct |-> connection_failed(a), ok |-> FALSE]

\* send_email; empty: neither the plain body nor the HTML body has content.
send_email(c, a, t, net, empty) ==
    LET g == get_connection(c, a, net)
    IN  IF ~g.ok
        THEN [conn |-> g.conn, acct |-> g.acct, ok |-> FALSE]
        ELSE IF empty \/ ~net.send
        THEN [conn |-> g.conn, acct |-> send_failed(g.acct), ok |-> FALSE]
        ELSE [conn |-> g.conn, acct |-> send_succeeded(g.acct, t), ok |-> TRUE]

\* A variant of close_all_connections without the try around quit(): the
\* exception of the first quit() that raises leaves the method, before clear().
close_all_connections_propagates(conns, bad) ==
    IF \E i \in bad : conns[i] = "open"
    THEN [conns |-> conns, raised |-> TRUE]
    ELSE [conns |-> [i \in DOMAIN conns |-> "absent"], raised |-> FALSE]

\* close_all_connections; bad: the cached connections whose quit() raises.
\* Every exception of quit() is swallowed, and the cache is cleared at the end.
close_all_connections(conns, bad) ==
    [conns |-> [i \in DOMAIN conns |-> "absent"], raised |-> FALSE]

\* The network calls one send_email makes, in the order of the code: the NOOP
\* probe of a cached connection, the connect and login when there is no live
\* one, and send_message when a connection was obtained and a body is present.
NetworkCalls(c, net, empty) ==
    (IF c = "open" THEN {"noop"} ELSE {})
    \cup (IF c = "open" /\ net.noop THEN {} ELSE {"connect"})
    \cup (IF ((c = "open" /\ net.noop) \/ net.connect) /\ ~empty
          THEN {"send_message"} ELSE {})

NoAttempt == [empty |-> FALSE, calls |-> {}]

\* No close_all_connections call since the latest send.
NoClose == [calls |-> 0, raised |-> FALSE, quit_raised |-> FALSE]

\* ------------------------------------------------------------- pool: state
InitPoolFrom(Pools) ==
    /\ now = 0
    /\ \E p \in Pools :
          /\ accounts = [i \in DOMAIN p.accts |-> NewAccount(p.accts[i], 0)]
          /\ connections = [i \in DOMAIN p.accts |-> "absent"]
          /\ consec = [i \in DOMAIN p.accts |-> 0]
          /\ faulty = p.faulty
    /\ current_index = 0
    /\ pc = "idle"
    /\ selected = 0
    /\ outcome = "none"
    /\ attempt = NoAttempt
    /\ closeLog = NoClose
    /\ scanned = <<>>
    /\ selLog = <<>>
    /\ lastRet = 0

\* The concurrent runs that share one pool.
Threads == {1, 2}

\* Nothing is evaluated and no concurrent run is under way.
InitIdle ==
    /\ triggered = <<>>
    /\ cancelled = 0
    /\ tpc = [t \in Threads |-> "idle"]
    /\ tsel = [t \in Threads |-> 0]

\* No web application: nothing is stored, requested or run.
InitNoApp ==
    /\ store = <<>>
    /\ req = <<>>
    /\ thr = <<>>
    /\ active_campaigns = 0
    /\ ledger = <<>>

InitExtra == InitIdle /\ InitNoApp

NoStats == [total |-> 0, successful |-> 0, failed |-> 0, success_rate |-> <<0, 1>>]

\* No contact, no rule and no run: the pool is driven one send at a time.
InitNoRun ==
    /\ contacts = <<>>
    /\ rules = <<>>
    /\ followup_history = <<>>
    /\ rpc = "idle"
    /\ runs = 0
    /\ max_emails = <<>>
    /\ startContacts = <<>>
    /\ bList = <<>>
    /\ bI = 0
    /\ results = <<>>
    /\ cbLog = <<>>
    /\ slept = {}
    /\ fuPairs = <<>>
    /\ current_date = NoTime
    /\ stats = NoStats

InitCaller == InitNoRun /\ InitExtra

Init == InitPoolFrom(PoolConfigs) /\ InitCaller

\* ----------------------------------------------------------- pool: actions
\* The wall clock advances.
Tick ==
    /\ now < MaxNow
    /\ now' = now + 1
    /\ UNCHANGED <<accounts, current_index, connections, pc, selected, outcome,
                   scanned, selLog, lastRet, consec, attempt, closeLog, faulty>>
    /\ UNCHANGED callerVars
    /\ UNCHANGED extraVars

AllAvailable(accs, t) == \A i \in DOMAIN accs : is_account_available(accs[i], t)

\* send_to_contact, first part: get_available_account, and the SendResult
\* "No available SMTP accounts" when it returns None.
Select ==
    /\ pc = "idle"
    /\ LET g == get_available_account(accounts, current_index, now)
       IN  /\ accounts' = g.accounts
           /\ current_index' = g.current_index
           /\ selected' = g.ret
           /\ scanned' = g.seen
           /\ pc' = IF g.ret = 0 THEN "idle" ELSE "selected"
           /\ outcome' = IF g.ret = 0 THEN "no_account" ELSE "none"
           /\ lastRet' = IF g.ret = 0 THEN lastRet ELSE g.ret
           /\ selLog' = IF AllAvailable(g.accounts, now)
                        THEN LET l == Append(selLog, [prev |-> lastRet, ret |-> g.ret])
                             IN  IF Len(l) > Len(accounts) THEN Tail(l) ELSE l
                        ELSE <<>>
    /\ attempt' = NoAttempt
    /\ closeLog' = NoClose
    /\ UNCHANGED <<now, connections, consec, faulty>>
    /\ UNCHANGED callerVars
    /\ UNCHANGED extraVars

\* A variant of the except branch around the rendering that charges the failure
\* to the selected account.
RenderError_counts_failure ==
    /\ pc = "selected"
    /\ pc' = "idle"
    /\ outcome' = "render_error"
    /\ accounts' = [accounts EXCEPT ![selected] = send_failed(@)]
    /\ UNCHANGED <<now, current_index, connections, selected,
                   scanned, selLog, lastRet, consec, attempt, closeLog, faulty>>
    /\ UNCHANGED callerVars
    /\ UNCHANGED extraVars

\* send_to_contact, the except branch around the rendering of the templates.
RenderError ==
    /\ pc = "selected"
    /\ pc' = "idle"
    /\ outcome' = "render_error"
    /\ UNCHANGED <<now, accounts, current_index, connections, selected,
                   scanned, selLog, lastRet, consec, attempt, closeLog, faulty>>
    /\ UNCHANGED callerVars
    /\ UNCHANGED extraVars

\* send_to_contact, last part: send_email through the selected account.
Send ==
    /\ pc = "selected"
    /\ \E net \in (IF selected \in faulty THEN Net ELSE NetWorks),
          empty \in (IF selected \in faulty THEN BOOLEAN ELSE {FALSE}) :
          LET s == send_email(connections[selected], accounts[selected], now, net, empty)
          IN  /\ accounts' = [accounts EXCEPT ![selected] = s.acct]
              /\ connections' = [connections EXCEPT ![selected] = s.conn]
              /\ outcome' = IF s.ok THEN "ok" ELSE "send_failed"
              /\ consec' = [consec EXCEPT ![selected] = IF s.ok THEN 0 ELSE @ + 1]
              /\ attempt' = [empty |-> empty,
                              calls |-> NetworkCalls(connections[selected], net, empty)]
    /\ pc' = "idle"
    /\ UNCHANGED <<now, current_index, selected, scanned, selLog, lastRet, closeLog,
                   faulty>>
    /\ UNCHANGED callerVars
    /\ UNCHANGED extraVars

\* close_all_connections, between two sends; the quit() of a cached connection
\* of a faulty account may raise.
CloseAll ==
    /\ pc = "idle"
    /\ closeLog.calls < MaxCloses
    /\ \E bad \in SUBSET {i \in faulty : connections[i] = "open"} :
          LET r == close_all_connections(connections, bad)
          IN  /\ connections' = r.conns
              /\ closeLog' = [calls |-> closeLog.calls + 1,
                              raised |-> closeLog.raised \/ r.raised,
                              quit_raised |-> closeLog.quit_raised \/ bad # {}]
    /\ UNCHANGED <<now, accounts, current_index, pc, selected, outcome,
                   scanned, selLog, lastRet, consec, attempt, faulty>>
    /\ UNCHANGED callerVars
    /\ UNCHANGED extraVars

Next == Tick \/ Select \/ RenderError \/ Send \/ CloseAll

Spec == Init /\ [][Next]_vars

\* ------------------------------------------------------------------ Contact
\* A Contact; its email is its position in the list (the emails are distinct).
Contact(st, n, last) ==
    [status |-> st, sent_count |-> n, last_sent_date |-> last,
     follow_up_date |-> NoTime, notes |-> <<>>]

Pending == Contact("pending", 0, NoTime)
SentBefore == Contact("sent", 1, 0)
FailedBefore == [Contact("failed", 1, 0) EXCEPT !.notes = <<"SMTP send failed">>]
Unsubscribed == Contact("unsubscribed", 1, 0)

\* The contact lists the runs are given.
ContactLists ==
    { <<Pending, Pending, Pending>>,
      <<Pending, Unsubscribed, SentBefore>>,
      <<Unsubscribed, FailedBefore>> }

\* -------------------------------------------------------------- EmailSender
\* EmailSender.__init__
batch_size == 10
batch_delay == 60
global_delay == 2

\* What happens around one attempt: whether the templates render, what the
\* network does, and whether both rendered bodies are empty.
Env ==
    { [render |-> TRUE,  net |-> [noop |-> TRUE,  connect |-> TRUE,  send |-> TRUE],  empty |-> FALSE],
      [render |-> FALSE, net |-> [noop |-> TRUE,  connect |-> TRUE,  send |-> TRUE],  empty |-> FALSE],
      [render |-> TRUE,  net |-> [noop |-> FALSE, connect |-> TRUE,  send |-> TRUE],  empty |-> FALSE],
      [render |-> TRUE,  net |-> [noop |-> FALSE, connect |-> FALSE, send |-> TRUE],  empty |-> FALSE],
      [render |-> TRUE,  net |-> [noop |-> TRUE,  connect |-> TRUE,  send |-> FALSE], empty |-> FALSE],
      [render |-> TRUE,  net |-> [noop |-> TRUE,  connect |-> TRUE,  send |-> TRUE],  empty |-> TRUE] }

\* The attempts the environment may fail: those through a faulty account.
EnvAllowed(env, account, bad) ==
    account \notin bad => (env.render /\ env.net.connect /\ env.net.send /\ ~env.empty)

SendResult(ok, c, acc, err) ==
    [success |-> ok, contact_email |-> c, account_name |-> acc, error_message |-> err]

\* send_to_contact for contact c at time t; account_name 0 stands for "none".
send_to_contact(accs, idx, conns, c, t, env) ==
    LET g == get_available_account(accs, idx, t)
    IN  IF g.ret = 0
        THEN [accounts |-> g.accounts, current_index |-> g.current_index,
              connections |-> conns, account |-> 0,
              result |-> SendResult(FALSE, c, 0, "No available SMTP accounts")]
        ELSE IF ~env.render
        THEN [accounts |-> g.accounts, current_index |-> g.current_index,
              connections |-> conns, account |-> g.ret,
              result |-> SendResult(FALSE, c, g.ret, "Template rendering error")]
        ELSE LET s == send_email(conns[g.ret], g.accounts[g.ret], t, env.net, env.empty)
             IN  [accounts |-> [g.accounts EXCEPT ![g.ret] = s.acct],
                  current_index |-> g.current_index,
                  connections |-> [conns EXCEPT ![g.ret] = s.conn],
                  account |-> g.ret,
                  result |-> SendResult(s.ok, c, g.ret,
                                IF s.ok THEN "None" ELSE "SMTP send failed")]

\* A variant of the update that counts a failed attempt as a message sent.
UpdateContact_counts_failures(contact, result, t) ==
    IF result.success
    THEN [contact EXCEPT !.status = "sent",
                         !.sent_count = contact.sent_count + 1,
                         !.last_sent_date = t]
    ELSE [contact EXCEPT !.status = "failed",
                         !.sent_count = contact.sent_count + 1,
                         !.notes = Append(contact.notes, result.error_message)]

\* send_batch: the update of the contact after its attempt.
UpdateContact(contact, result, t) ==
    IF result.success
    THEN [contact EXCEPT !.status = "sent",
                         !.sent_count = contact.sent_count + 1,
                         !.last_sent_date = t]
    ELSE [contact EXCEPT !.status = "failed",
                         !.notes = Append(contact.notes, result.error_message)]

\* send_batch: the sleeps that follow iteration i of total.
SleepsAfter(i, total) ==
    (IF i < total THEN {"global_delay"} ELSE {})
    \cup (IF i % batch_size = 0 /\ i < total THEN {"batch_delay"} ELSE {})

Min(a, b) == IF a <= b THEN a ELSE b

\* send_campaign: contacts[:max_emails] when max_emails is truthy.
Truncate(list, m) ==
    IF m # <<>> /\ m[1] # 0
    THEN SubSeq(list, 1, Min(m[1], Len(list)))
    ELSE list

Count(seq, P(_)) == Cardinality({k \in DOMAIN seq : P(seq[k])})

Succeeded(r) == r.success

\* A variant of the statistics that counts as failed only the attempts that
\* failed on the transport.
CampaignStats_transport_failures(res) ==
    LET total == Len(res)
        successful == Count(res, Succeeded)
        failed == Cardinality({k \in DOMAIN res :
                                  res[k].error_message = "SMTP send failed"})
    IN  [total |-> total, successful |-> successful, failed |-> failed,
         success_rate |-> IF total > 0 THEN <<successful * 100, total>> ELSE <<0, 1>>]

\* send_campaign: the statistics; success_rate is the fraction <<num, den>>.
CampaignStats(res) ==
    LET total == Len(res)
        successful == Count(res, Succeeded)
    IN  [total |-> total, successful |-> successful, failed |-> total - successful,
         success_rate |-> IF total > 0 THEN <<successful * 100, total>> ELSE <<0, 1>>]

\* -------------------------------------------------------- FollowUpScheduler
Rule(n, tr, d, m, e) ==
    [name |-> n, trigger |-> tr, days |-> d, max_followups |-> m, enabled |-> e]

\* The rules registered with add_rule before the runs, in registration order.
RuleLists ==
    { <<Rule("a", "immediate", 0, 1, TRUE)>>,
      <<Rule("b", "days_after_send", 1, 2, TRUE), Rule("a", "immediate", 0, 1, TRUE)>>,
      <<Rule("e", "immediate", 0, 1, FALSE), Rule("c", "days_after_no_reply", 1, 1, TRUE)>>,
      <<Rule("d", "days_after_failure", 0, 2, TRUE), Rule("b", "days_after_send", 0, 1, TRUE)>>,
      <<Rule("a", "immediate", 0, 2, TRUE), Rule("a", "days_after_send", 0, 1, TRUE)>>,
      <<Rule("a", "days_after_send", 0, 2, TRUE), Rule("a", "immediate", 0, 1, TRUE)>> }

\* (current_date - contact.last_sent_date).days
DaysSince(t, last) == (t - last) \div TicksPerDay

\* A variant of should_trigger whose days_after_no_reply branch asks for more
\* than rule.days days.
should_trigger_no_reply_strict(rule, contact, t) ==
    IF ~rule.enabled THEN FALSE
    ELSE IF rule.trigger = "days_after_send"
    THEN IF contact.last_sent_date = NoTime THEN FALSE
         ELSE DaysSince(t, contact.last_sent_date) >= rule.days
    ELSE IF rule.trigger = "days_after_failure"
    THEN IF contact.status # "failed" THEN FALSE
         ELSE IF contact.last_sent_date = NoTime THEN FALSE
         ELSE DaysSince(t, contact.last_sent_date) >= rule.days
    ELSE IF rule.trigger = "days_after_no_reply"
    THEN IF contact.status # "sent" THEN FALSE
         ELSE IF contact.last_sent_date = NoTime THEN FALSE
         ELSE DaysSince(t, contact.last_sent_date) > rule.days
    ELSE IF rule.trigger = "immediate" THEN TRUE
    ELSE FALSE

\* A variant of should_trigger whose immediate branch waits for a first send.
should_trigger_immediate_after_send(rule, contact, t) ==
    IF ~rule.enabled THEN FALSE
    ELSE IF rule.trigger = "days_after_send"
    THEN IF contact.last_sent_date = NoTime THEN FALSE
         ELSE DaysSince(t, contact.last_sent_date) >= rule.days
    ELSE IF rule.trigger = "days_after_failure"
    THEN IF contact.status # "failed" THEN FALSE
         ELSE IF contact.last_sent_date = NoTime THEN FALSE
         ELSE DaysSince(t, contact.last_sent_date) >= rule.days
    ELSE IF rule.trigger = "days_after_no_reply"
    THEN IF contact.status # "sent" THEN FALSE
         ELSE IF contact.last_sent_date = NoTime THEN FALSE
         ELSE DaysSince(t, contact.last_sent_date) >= rule.days
    ELSE IF rule.trigger = "immediate" THEN contact.last_sent_date # NoTime
    ELSE FALSE

\* FollowUpRule.should_trigger
should_trigger(rule, contact, t) ==
    IF ~rule.enabled THEN FALSE
    ELSE IF rule.trigger = "days_after_send"
    THEN IF contact.last_sent_date = NoTime THEN FALSE
         ELSE DaysSince(t, contact.last_sent_date) >= rule.days
    ELSE IF rule.trigger = "days_after_failure"
    THEN IF contact.status # "failed" THEN FALSE
         ELSE IF contact.last_sent_date = NoTime THEN FALSE
         ELSE DaysSince(t, contact.last_sent_date) >= rule.days
    ELSE IF rule.trigger = "days_after_no_reply"
    THEN IF contact.status # "sent" THEN FALSE
         ELSE IF contact.last_sent_date = NoTime THEN FALSE
         ELSE DaysSince(t, contact.last_sent_date) >= rule.days
    ELSE IF rule.trigger = "immediate" THEN TRUE
    ELSE FALSE

\* get_followup_count: the entries of the contact's history with that rule name.
get_followup_count(hist, c, rule_name) ==
    Cardinality({k \in DOMAIN hist[c] : hist[c][k].rule_name = rule_name})

\* A variant of the inner loop that does not compare the count with the cap.
RECURSIVE FirstRule_ignores_cap(_, _, _, _, _, _)
FirstRule_ignores_cap(rs, hist, cs, c, k, t) ==
    IF k > Len(rs) THEN 0
    ELSE IF ~rs[k].enabled THEN FirstRule_ignores_cap(rs, hist, cs, c, k + 1, t)
    ELSE IF should_trigger(rs[k], cs[c], t) THEN k
    ELSE FirstRule_ignores_cap(rs, hist, cs, c, k + 1, t)

\* A variant of the inner loop that does not stop at the first rule: the last
\* rule that is enabled, under its cap and triggers wins.
FirstRule_last_wins(rs, hist, cs, c, k, t) ==
    LET due == {j \in k .. Len(rs) :
                  /\ rs[j].enabled
                  /\ get_followup_count(hist, c, rs[j].name) < rs[j].max_followups
                  /\ should_trigger(rs[j], cs[c], t)}
    IN  IF due = {} THEN 0 ELSE CHOOSE j \in due : \A i \in due : i <= j

\* The inner loop of get_contacts_for_followup: the position of the first rule,
\* from k on, that is enabled, under its cap and triggers; 0 when there is none.
RECURSIVE FirstRule(_, _, _, _, _, _)
FirstRule(rs, hist, cs, c, k, t) ==
    IF k > Len(rs) THEN 0
    ELSE IF ~rs[k].enabled THEN FirstRule(rs, hist, cs, c, k + 1, t)
    ELSE IF get_followup_count(hist, c, rs[k].name) >= rs[k].max_followups
    THEN FirstRule(rs, hist, cs, c, k + 1, t)
    ELSE IF should_trigger(rs[k], cs[c], t) THEN k
    ELSE FirstRule(rs, hist, cs, c, k + 1, t)

\* A variant of the outer loop without the test of the contact's status.
RECURSIVE PairsFrom_keeps_unsubscribed(_, _, _, _, _)
PairsFrom_keeps_unsubscribed(rs, hist, cs, c, t) ==
    IF c > Len(cs) THEN <<>>
    ELSE LET k == FirstRule(rs, hist, cs, c, 1, t)
         IN  IF k = 0 THEN PairsFrom_keeps_unsubscribed(rs, hist, cs, c + 1, t)
             ELSE <<[contact |-> c, rule |-> k]>>
                  \o PairsFrom_keeps_unsubscribed(rs, hist, cs, c + 1, t)

\* The outer loop of get_contacts_for_followup, from contact c on.
RECURSIVE PairsFrom(_, _, _, _, _)
PairsFrom(rs, hist, cs, c, t) ==
    IF c > Len(cs) THEN <<>>
    ELSE IF cs[c].status = "unsubscribed" THEN PairsFrom(rs, hist, cs, c + 1, t)
    ELSE LET k == FirstRule(rs, hist, cs, c, 1, t)
         IN  IF k = 0 THEN PairsFrom(rs, hist, cs, c + 1, t)
             ELSE <<[contact |-> c, rule |-> k]>> \o PairsFrom(rs, hist, cs, c + 1, t)

get_contacts_for_followup(rs, hist, cs, t) == PairsFrom(rs, hist, cs, 1, t)

\* A variant of the update that compares the cap with the count before the
\* attempt just recorded.
FollowedUp_counts_before(contact, c, rule, result, hist, t) ==
    IF result.success
    THEN LET c1 == [contact EXCEPT !.last_sent_date = t,
                                   !.sent_count = contact.sent_count + 1]
         IN  IF get_followup_count(hist, c, rule.name) - 1 < rule.max_followups
             THEN [c1 EXCEPT !.follow_up_date = t + rule.days * TicksPerDay]
             ELSE c1
    ELSE [contact EXCEPT !.status = "failed"]

\* A variant of the update that marks the contact 'sent' after a follow-up
\* that was delivered.
FollowedUp_marks_sent(contact, c, rule, result, hist, t) ==
    IF result.success
    THEN LET c1 == [contact EXCEPT !.status = "sent",
                                   !.last_sent_date = t,
                                   !.sent_count = contact.sent_count + 1]
         IN  IF get_followup_count(hist, c, rule.name) < rule.max_followups
             THEN [c1 EXCEPT !.follow_up_date = t + rule.days * TicksPerDay]
             ELSE c1
    ELSE [contact EXCEPT !.status = "failed"]

\* process_followups: the update of the contact after its follow-up attempt;
\* hist is the history with the attempt recorded.
FollowedUp(contact, c, rule, result, hist, t) ==
    IF result.success
    THEN LET c1 == [contact EXCEPT !.last_sent_date = t,
                                   !.sent_count = contact.sent_count + 1]
         IN  IF get_followup_count(hist, c, rule.name) < rule.max_followups
             THEN [c1 EXCEPT !.follow_up_date = t + rule.days * TicksPerDay]
             ELSE c1
    ELSE [contact EXCEPT !.status = "failed"]

\* ------------------------------------------------------- the caller: state
\* What the runs are given: the pool they send through, the contacts and the
\* rules.  Every contact list meets every rule list on a pool whose attempts
\* succeed (an attempt then fails only for lack of an available account); one
\* scenario has a pool whose attempts may fail in every way.
Scenarios ==
    [pool : {Pool(<<Cfg(1, 1, 0)>>, {})}, contacts : ContactLists, rules : RuleLists]
    \cup { [pool |-> Pool(<<Cfg(1, 1, 0)>>, {1}),
            contacts |-> <<Pending, SentBefore>>,
            rules |-> <<Rule("d", "days_after_failure", 0, 2, TRUE),
                        Rule("a", "immediate", 0, 1, TRUE)>>] }

InitRun ==
    /\ \E sc \in Scenarios :
          /\ InitPoolFrom({sc.pool})
          /\ contacts = sc.contacts
          /\ followup_history = [c \in DOMAIN sc.contacts |-> <<>>]
          /\ rules = sc.rules
    /\ rpc = "idle"
    /\ runs = 0
    /\ max_emails = <<>>
    /\ startContacts = <<>>
    /\ bList = <<>>
    /\ bI = 0
    /\ results = <<>>
    /\ cbLog = <<>>
    /\ slept = {}
    /\ fuPairs = <<>>
    /\ current_date = NoTime
    /\ stats = NoStats
    /\ InitExtra

\* ----------------------------------------------------- the caller: actions
\* The values of max_emails: None, or a number.
MaxEmailsChoices == {<<>>} \cup {<<m>> : m \in 0 .. Len(contacts) + 1}

\* send_campaign, up to the call of send_batch: the truncation of the list.
StartCampaign ==
    /\ rpc = "idle"
    /\ runs < MaxRuns
    /\ \E m \in MaxEmailsChoices :
          /\ max_emails' = m
          /\ bList' = Truncate([k \in DOMAIN contacts |-> k], m)
    /\ runs' = runs + 1
    /\ rpc' = "batch"
    /\ startContacts' = contacts
    /\ bI' = 0
    /\ results' = <<>>
    /\ cbLog' = <<>>
    /\ slept' = {}
    /\ UNCHANGED <<now, accounts, current_index, connections, faulty>>
    /\ UNCHANGED stepVars
    /\ UNCHANGED extraVars
    /\ UNCHANGED <<contacts, rules, followup_history, fuPairs,
                   current_date, stats>>

\* A variant of the loop body of send_batch that leaves the loop at the first
\* attempt that fails.
BatchStep_aborts_on_failure ==
    /\ rpc = "batch"
    /\ bI < Len(bList)
    /\ LET i == bI + 1
           c == bList[i]
       IN  IF contacts[c].status = "unsubscribed"
           THEN /\ bI' = i
                /\ slept' = {}
                /\ UNCHANGED <<accounts, current_index, connections, contacts,
                               results, cbLog>>
           ELSE \E env \in Env :
                  LET r == send_to_contact(accounts, current_index, connections,
                                           c, now, env)
                  IN  /\ EnvAllowed(env, r.account, faulty)
                      /\ bI' = IF r.result.success THEN i ELSE Len(bList)
                      /\ accounts' = r.accounts
                      /\ current_index' = r.current_index
                      /\ connections' = r.connections
                      /\ results' = Append(results, r.result)
                      /\ contacts' = [contacts EXCEPT
                                        ![c] = UpdateContact(@, r.result, now)]
                      /\ cbLog' = Append(cbLog, [i |-> i, total |-> Len(bList),
                                                 result |-> r.result])
                      /\ slept' = SleepsAfter(i, Len(bList))
    /\ UNCHANGED <<now, faulty>>
    /\ UNCHANGED stepVars
    /\ UNCHANGED extraVars
    /\ UNCHANGED <<rules, followup_history, rpc, runs, max_emails, startContacts,
                   bList, fuPairs, current_date, stats>>

\* A variant of the loop body of send_batch that reports only the successes to
\* the progress callback.
BatchStep_callback_on_success ==
    /\ rpc = "batch"
    /\ bI < Len(bList)
    /\ LET i == bI + 1
           c == bList[i]
       IN  /\ bI' = i
           /\ IF contacts[c].status = "unsubscribed"
              THEN /\ slept' = {}
                   /\ UNCHANGED <<accounts, current_index, connections, contacts,
                                  results, cbLog>>
              ELSE \E env \in Env :
                     LET r == send_to_contact(accounts, current_index, connections,
                                              c, now, env)
                     IN  /\ EnvAllowed(env, r.account, faulty)
                         /\ accounts' = r.accounts
                         /\ current_index' = r.current_index
                         /\ connections' = r.connections
                         /\ results' = Append(results, r.result)
                         /\ contacts' = [contacts EXCEPT
                                           ![c] = UpdateContact(@, r.result, now)]
                         /\ cbLog' = IF r.result.success
                                     THEN Append(cbLog, [i |-> i, total |-> Len(bList),
                                                         result |-> r.result])
                                     ELSE cbLog
                         /\ slept' = SleepsAfter(i, Len(bList))
    /\ UNCHANGED <<now, faulty>>
    /\ UNCHANGED stepVars
    /\ UNCHANGED extraVars
    /\ UNCHANGED <<rules, followup_history, rpc, runs, max_emails, startContacts,
                   bList, fuPairs, current_date, stats>>

\* send_batch: one iteration of the loop over the contacts.
BatchStep ==
    /\ rpc = "batch"
    /\ bI < Len(bList)
    /\ LET i == bI + 1
           c == bList[i]
       IN  /\ bI' = i
           /\ IF contacts[c].status = "unsubscribed"
              THEN /\ slept' = {}
                   /\ UNCHANGED <<accounts, current_index, connections, contacts,
                                  results, cbLog>>
              ELSE \E env \in Env :
                     LET r == send_to_contact(accounts, current_index, connections,
                                              c, now, env)
                     IN  /\ EnvAllowed(env, r.account, faulty)
                         /\ accounts' = r.accounts
                         /\ current_index' = r.current_index
                         /\ connections' = r.connections
                         /\ results' = Append(results, r.result)
                         /\ contacts' = [contacts EXCEPT
                                           ![c] = UpdateContact(@, r.result, now)]
                         /\ cbLog' = Append(cbLog, [i |-> i, total |-> Len(bList),
                                                    result |-> r.result])
                         /\ slept' = SleepsAfter(i, Len(bList))
    /\ UNCHANGED <<now, faulty>>
    /\ UNCHANGED stepVars
    /\ UNCHANGED extraVars
    /\ UNCHANGED <<rules, followup_history, rpc, runs, max_emails, startContacts,
                   bList, fuPairs,
                   current_date, stats>>

\* send_batch returns and send_campaign computes the statistics.
BatchEnd ==
    /\ rpc = "batch"
    /\ bI = Len(bList)
    /\ stats' = CampaignStats(results)
    /\ rpc' = "batch_done"
    /\ slept' = {}
    /\ UNCHANGED <<now, accounts, current_index, connections, faulty>>
    /\ UNCHANGED stepVars
    /\ UNCHANGED extraVars
    /\ UNCHANGED <<contacts, rules, followup_history, runs, max_emails, startContacts,
                   bList, bI, results, cbLog, fuPairs,
                   current_date>>

\* process_followups, up to the loop: the due pairs, and the early return.
FollowUpStart ==
    /\ rpc = "idle"
    /\ runs < MaxRuns
    /\ current_date' = now
    /\ LET pairs == get_contacts_for_followup(rules, followup_history, contacts, now)
       IN  /\ fuPairs' = pairs
           /\ rpc' = IF pairs = <<>> THEN "fu_done" ELSE "fu"
           /\ stats' = IF pairs = <<>>
                       THEN [total |-> 0, successful |-> 0, failed |-> 0]
                       ELSE stats
    /\ runs' = runs + 1
    /\ startContacts' = contacts
    /\ bI' = 0
    /\ results' = <<>>
    /\ cbLog' = <<>>
    /\ UNCHANGED <<now, accounts, current_index, connections, faulty>>
    /\ UNCHANGED stepVars
    /\ UNCHANGED extraVars
    /\ UNCHANGED <<contacts, rules, followup_history, max_emails, bList, slept>>

\* A variant of the loop body of process_followups that records in the history
\* only the follow-ups that were delivered.
FollowUpStep_records_deliveries ==
    /\ rpc = "fu"
    /\ bI < Len(fuPairs)
    /\ LET i == bI + 1
           c == fuPairs[i].contact
           rule == rules[fuPairs[i].rule]
       IN  /\ bI' = i
           /\ \E env \in Env :
                 LET r == send_to_contact(accounts, current_index, connections,
                                          c, now, env)
                     h == IF r.result.success
                          THEN [followup_history EXCEPT ![c] =
                                  Append(@, [rule_name |-> rule.name,
                                             success |-> r.result.success,
                                             error |-> r.result.error_message])]
                          ELSE followup_history
                     entry == [contact_email |-> c, rule_name |-> rule.name,
                               success |-> r.result.success]
                 IN  /\ EnvAllowed(env, r.account, faulty)
                     /\ accounts' = r.accounts
                     /\ current_index' = r.current_index
                     /\ connections' = r.connections
                     /\ followup_history' = h
                     /\ contacts' = [contacts EXCEPT
                                       ![c] = FollowedUp(@, c, rule, r.result, h, now)]
                     /\ results' = Append(results, entry)
                     /\ cbLog' = Append(cbLog, [i |-> i, total |-> Len(fuPairs),
                                                result |-> entry])
    /\ UNCHANGED <<now, faulty>>
    /\ UNCHANGED stepVars
    /\ UNCHANGED extraVars
    /\ UNCHANGED <<rules, rpc, runs, max_emails, startContacts, bList, slept,
                   fuPairs,
                   current_date, stats>>

\* process_followups: one iteration of the loop over the due pairs.
FollowUpStep ==
    /\ rpc = "fu"
    /\ bI < Len(fuPairs)
    /\ LET i == bI + 1
           c == fuPairs[i].contact
           rule == rules[fuPairs[i].rule]
       IN  /\ bI' = i
           /\ \E env \in Env :
                 LET r == send_to_contact(accounts, current_index, connections,
                                          c, now, env)
                     h == [followup_history EXCEPT ![c] =
                             Append(@, [rule_name |-> rule.name,
                                        success |-> r.result.success,
                                        error |-> r.result.error_message])]
                     entry == [contact_email |-> c, rule_name |-> rule.name,
                               success |-> r.result.success]
                 IN  /\ EnvAllowed(env, r.account, faulty)
                     /\ accounts' = r.accounts
                     /\ current_index' = r.current_index
                     /\ connections' = r.connections
                     /\ followup_history' = h
                     /\ contacts' = [contacts EXCEPT
                                       ![c] = FollowedUp(@, c, rule, r.result, h, now)]
                     /\ results' = Append(results, entry)
                     /\ cbLog' = Append(cbLog, [i |-> i, total |-> Len(fuPairs),
                                                result |-> entry])
    /\ UNCHANGED <<now, faulty>>
    /\ UNCHANGED stepVars
    /\ UNCHANGED extraVars
    /\ UNCHANGED <<rules, rpc, runs, max_emails, startContacts, bList, slept,
                   fuPairs,
                   current_date, stats>>

\* process_followups: the statistics after the loop.
FollowUpEnd ==
    /\ rpc = "fu"
    /\ bI = Len(fuPairs)
    /\ LET total == Len(fuPairs)
           successful == Count(results, Succeeded)
       IN  stats' = [total |-> total, successful |-> successful,
                     failed |-> Len(results) - successful,
                     success_rate |-> IF total > 0 THEN <<successful * 100, total>>
                                      ELSE <<0, 1>>]
    /\ rpc' = "fu_done"
    /\ UNCHANGED <<now, accounts, current_index, connections, faulty>>
    /\ UNCHANGED stepVars
    /\ UNCHANGED extraVars
    /\ UNCHANGED <<contacts, rules, followup_history, runs, max_emails, startContacts,
                   bList, bI, results, cbLog, slept, fuPairs,
                   current_date>>

\* The run has returned to its caller; its locals are gone.
Return ==
    /\ rpc \in {"batch_done", "fu_done"}
    /\ rpc' = "idle"
    /\ max_emails' = <<>>
    /\ startContacts' = <<>>
    /\ bList' = <<>>
    /\ bI' = 0
    /\ results' = <<>>
    /\ cbLog' = <<>>
    /\ slept' = {}
    /\ fuPairs' = <<>>
    /\ current_date' = NoTime
    /\ stats' = NoStats
    /\ UNCHANGED <<now, accounts, current_index, connections, faulty>>
    /\ UNCHANGED stepVars
    /\ UNCHANGED extraVars
    /\ UNCHANGED <<contacts, rules, followup_history, runs>>

NextRun ==
    \/ (rpc \in {"idle", "batch", "fu"} /\ Tick)
    \/ StartCampaign
    \/ BatchStep
    \/ BatchEnd
    \/ FollowUpStart
    \/ FollowUpStep
    \/ FollowUpEnd
    \/ Return

SpecRun == InitRun /\ [][NextRun]_vars

\* The campaigns alone.  A campaign that was started goes on: the thread that
\* executes send_batch is scheduled until the loop ends and send_campaign
\* returns its statistics.
NextBatch ==
    \/ (rpc \in {"idle", "batch"} /\ Tick)
    \/ StartCampaign
    \/ BatchStep
    \/ BatchEnd
    \/ Return

\* ENABLED <<BatchStep>>_vars: the loop has a contact left (a step moves bI).
BatchStepEnabled == rpc = "batch" /\ bI < Len(bList)

\* Weak fairness of BatchStep, with its enabling condition written out, and
\* of BatchEnd.
SpecBatch ==
    /\ InitRun /\ [][NextBatch]_vars
    /\ ([]<>~BatchStepEnabled \/ []<><<BatchStep>>_vars)
    /\ WF_vars(BatchEnd)


\* ------------------------------------------------- should_trigger, alone
\* One rule and one contact, and the date moving on to MaxDays days and more
\* after the contact's last_sent_date.
FollowUpTrigger == {"immediate", "days_after_send", "days_after_failure",
                    "days_after_no_reply"}
ContactStatus == {"pending", "sent", "failed", "replied", "unsubscribed"}
TriggerHorizon == (MaxDays + 1) * TicksPerDay

InitTrigger ==
    /\ now = 0
    /\ accounts = <<>>
    /\ connections = <<>>
    /\ consec = <<>>
    /\ faulty = {}
    /\ current_index = 0
    /\ pc = "idle"
    /\ selected = 0
    /\ outcome = "none"
    /\ attempt = NoAttempt
    /\ closeLog = NoClose
    /\ scanned = <<>>
    /\ selLog = <<>>
    /\ lastRet = 0
    /\ \E tr \in FollowUpTrigger, d \in 0 .. MaxDays, e \in BOOLEAN :
          rules = <<Rule("r", tr, d, 1, e)>>
    /\ \E st \in ContactStatus, last \in {NoTime, 0, 1} :
          contacts = <<Contact(st, IF last = NoTime THEN 0 ELSE 1, last)>>
    /\ followup_history = <<<<>>>>
    /\ rpc = "idle"
    /\ runs = 0
    /\ max_emails = <<>>
    /\ startContacts = <<>>
    /\ bList = <<>>
    /\ bI = 0
    /\ results = <<>>
    /\ cbLog = <<>>
    /\ slept = {}
    /\ fuPairs = <<>>
    /\ current_date = NoTime
    /\ stats = NoStats
    /\ InitExtra

\* The date moves on.
DateAdvances ==
    /\ now < TriggerHorizon
    /\ now' = now + 1
    /\ triggered' = <<>>
    /\ UNCHANGED <<accounts, current_index, connections, faulty>>
    /\ UNCHANGED stepVars
    /\ UNCHANGED callerVars
    /\ UNCHANGED concVars
    /\ UNCHANGED appVars
    /\ UNCHANGED signalVars

\* rule.should_trigger(contact, current_date) at the present date.
Evaluate ==
    /\ triggered' = <<should_trigger(rules[1], contacts[1], now)>>
    /\ UNCHANGED <<now, accounts, current_index, connections, faulty>>
    /\ UNCHANGED stepVars
    /\ UNCHANGED callerVars
    /\ UNCHANGED concVars
    /\ UNCHANGED appVars
    /\ UNCHANGED signalVars

NextTrigger == DateAdvances \/ Evaluate

SpecTrigger == InitTrigger /\ [][NextTrigger]_vars

\* ------------------------------------------- two runs that share one pool
\* Each run of Threads executes send_to_contact against the same SMTPManager.
\* No statement of the pool takes a lock, so the runs interleave between the
\* selection, the network calls of send_email (which release the interpreter)
\* and the statistics update.  Each of the three is taken as one step.
ConcPools ==
    { Pool(<<Cfg(1, 1, 0)>>, {}),
      Pool(<<Cfg(2, 1, 0), Cfg(1, 2, 0)>>, {1}) }

InitConc == InitPoolFrom(ConcPools) /\ InitCaller

\* get_available_account, called by run t.
ConcSelect(t) ==
    /\ tpc[t] = "idle"
    /\ LET g == get_available_account(accounts, current_index, now)
       IN  /\ accounts' = g.accounts
           /\ current_index' = g.current_index
           /\ tsel' = [tsel EXCEPT ![t] = g.ret]
           /\ tpc' = [tpc EXCEPT ![t] = IF g.ret = 0 THEN "idle" ELSE "selected"]
    /\ UNCHANGED <<now, connections, faulty, triggered>>
    /\ UNCHANGED stepVars
    /\ UNCHANGED callerVars
    /\ UNCHANGED appVars
    /\ UNCHANGED signalVars

\* send_email of run t up to the return of send_message: get_connection, then
\* the submission; a failure of either is charged to the account at once.
ConcSend(t) ==
    /\ tpc[t] = "selected"
    /\ \E net \in (IF tsel[t] \in faulty THEN Net ELSE NetWorks) :
          LET i == tsel[t]
              g == get_connection(connections[i], accounts[i], net)
          IN  /\ connections' = [connections EXCEPT ![i] = g.conn]
              /\ IF ~g.ok
                 THEN /\ accounts' = [accounts EXCEPT ![i] = g.acct]
                      /\ tpc' = [tpc EXCEPT ![t] = "idle"]
                 ELSE IF ~net.send
                 THEN /\ accounts' = [accounts EXCEPT ![i] = send_failed(@)]
                      /\ tpc' = [tpc EXCEPT ![t] = "idle"]
                 ELSE /\ accounts' = accounts
                      /\ tpc' = [tpc EXCEPT ![t] = "sent"]
    /\ UNCHANGED <<now, current_index, faulty, triggered, tsel>>
    /\ UNCHANGED stepVars
    /\ UNCHANGED callerVars
    /\ UNCHANGED appVars
    /\ UNCHANGED signalVars

\* send_email of run t after send_message returned: the statistics update.
ConcAccount(t) ==
    /\ tpc[t] = "sent"
    /\ accounts' = [accounts EXCEPT ![tsel[t]] = send_succeeded(@, now)]
    /\ tpc' = [tpc EXCEPT ![t] = "idle"]
    /\ UNCHANGED <<now, current_index, connections, faulty, triggered, tsel>>
    /\ UNCHANGED stepVars
    /\ UNCHANGED callerVars
    /\ UNCHANGED appVars
    /\ UNCHANGED signalVars

NextConc ==
    \/ Tick
    \/ \E t \in Threads : ConcSelect(t)
    \/ \E t \in Threads : ConcSend(t)
    \/ \E t \in Threads : ConcAccount(t)

SpecConc == InitConc /\ [][NextConc]_vars

\* ------------------------------------------------------ the web application
\* app/api/campaigns.py: one campaign in Storage, two start_campaign requests
\* and the run_campaign thread each of them may start.  Storage.update on the
\* campaign is taken as one step; the progress callback's Storage.load and
\* Storage.save of the contacts are separate steps.
StoredAccount(cfg, active) == [cfg |-> cfg, is_active |-> active]

\* Storage.load('smtp_accounts')
AccountStores ==
    { <<>>,
      <<StoredAccount(Cfg(1, 1, 0), FALSE)>>,
      <<StoredAccount(Cfg(1, 1, 0), TRUE)>>,
      <<StoredAccount(Cfg(2, 1, 0), FALSE), StoredAccount(Cfg(1, 2, 0), TRUE)>> }

StoredContact(st, n) == [status |-> st, sent_count |-> n]

\* Storage.load('contacts')
ContactStores ==
    { <<StoredContact("pending", 0), StoredContact("pending", 0)>>,
      <<StoredContact("sent", 1), StoredContact("pending", 0)>> }

\* The fields of the campaign that create_campaign takes from the request.
CampaignData == [resend : BOOLEAN, max_emails : {<<>>, <<1>>}]

Dates == 0 .. Date(MaxNow)

EnvOk == [render |-> TRUE, net |-> [noop |-> TRUE, connect |-> TRUE, send |-> TRUE],
          empty |-> FALSE]

NoThread ==
    [pc |-> "none", accounts |-> <<>>, ids |-> <<>>, current_index |-> 0,
     connections |-> <<>>, contacts |-> <<>>, i |-> 0, results |-> <<>>,
     loaded |-> <<>>]

\* A thread that was started and has not returned.
Live(t) == thr[t].pc \in {"started", "running", "sending", "saving"}

\* The application over the stored accounts sas, the stored contacts scs, the
\* campaigns cds, with or without the campaign's template in Storage, and the
\* stored accounts bad whose attempts may fail.
InitAppFrom(sas, scs, cds, templates, bad) ==
    /\ InitPoolFrom({Pool(<<>>, bad)})
    /\ InitNoRun
    /\ InitIdle
    /\ \E sa \in sas, sc \in scs, cd \in cds, tp \in templates :
          /\ store = [campaign |-> [status |-> "pending", error |-> "None",
                                    resend |-> cd.resend,
                                    max_emails |-> cd.max_emails,
                                    emails_sent |-> 0, emails_failed |-> 0],
                      smtp_accounts |-> sa,
                      contacts |-> sc,
                      template |-> tp]
          /\ ledger = [initial |-> sc,
                       outcomes |-> 0,
                       by |-> [t \in Threads |-> 0],
                       delivered |-> [c \in DOMAIN sc |-> 0],
                       sent |-> [a \in DOMAIN sa |-> [d \in Dates |-> 0]],
                       overlap |-> FALSE,
                       tripped |-> {},
                       barred |-> [t \in Threads |-> {}]]
    /\ req = [r \in Threads |-> "new"]
    /\ thr = [t \in Threads |-> NoThread]
    /\ active_campaigns = 0

InitApp == InitAppFrom(AccountStores, ContactStores, CampaignData, BOOLEAN, {})

\* start_campaign, request r, up to thread.start(): refused when the stored
\* status is 'running', otherwise the thread is started.
start_campaign(r) ==
    /\ req[r] = "new"
    /\ IF store.campaign.status = "running"
       THEN /\ req' = [req EXCEPT ![r] = "rejected"]
            /\ UNCHANGED <<thr, ledger>>
       ELSE /\ req' = [req EXCEPT ![r] = "started"]
            /\ thr' = [thr EXCEPT ![r].pc = "started"]
            /\ ledger' = [ledger EXCEPT !.overlap =
                             @ \/ \E t \in Threads : Live(t)]
    /\ UNCHANGED <<now, accounts, current_index, connections, faulty, store,
                   active_campaigns>>
    /\ UNCHANGED stepVars
    /\ UNCHANGED callerVars
    /\ UNCHANGED <<triggered, tpc, tsel>>
    /\ UNCHANGED signalVars

\* start_campaign, request r, after thread.start(): the thread is entered in
\* active_campaigns under the id of the campaign.
Register(r) ==
    /\ req[r] = "started"
    /\ req' = [req EXCEPT ![r] = "registered"]
    /\ active_campaigns' = r
    /\ UNCHANGED <<now, accounts, current_index, connections, faulty, store, thr,
                   ledger>>
    /\ UNCHANGED stepVars
    /\ UNCHANGED callerVars
    /\ UNCHANGED <<triggered, tpc, tsel>>
    /\ UNCHANGED signalVars

\* run_campaign, its first statement: the stored status becomes 'running'.
RunMarkRunning(t) ==
    /\ thr[t].pc = "started"
    /\ store' = [store EXCEPT !.campaign.status = "running"]
    /\ thr' = [thr EXCEPT ![t].pc = "running"]
    /\ UNCHANGED <<now, accounts, current_index, connections, faulty, req, ledger,
                   active_campaigns>>
    /\ UNCHANGED stepVars
    /\ UNCHANGED callerVars
    /\ UNCHANGED <<triggered, tpc, tsel>>
    /\ UNCHANGED signalVars

\* The positions of the stored accounts that are active, in stored order.
ActiveIds(sa) == SelectSeq([k \in DOMAIN sa |-> k], LAMBDA k : sa[k].is_active)

\* The positions of the stored contacts a run takes: the pending ones, or all
\* of them when the campaign has resend set.
LoadedIds(sc, resend) ==
    SelectSeq([k \in DOMAIN sc |-> k], LAMBDA k : sc[k].status = "pending" \/ resend)

\* The thread with its pool and its Contact objects, before send_campaign.
Prepared(th, sa, sc, ids, loaded, m, t) ==
    [th EXCEPT !.pc = "sending",
               !.accounts = [k \in DOMAIN ids |-> NewAccount(sa[ids[k]].cfg, t)],
               !.ids = ids,
               !.current_index = 0,
               !.connections = [k \in DOMAIN ids |-> "absent"],
               !.contacts = Truncate([k \in DOMAIN loaded |->
                                        [id |-> loaded[k],
                                         c |-> Contact(sc[loaded[k]].status, 0, NoTime)]],
                                     m),
               !.i = 0]

\* The thread after run_campaign returned.
Ended == [NoThread EXCEPT !.pc = "ended"]

\* A variant of the preparation of the run without the test for an empty pool.
RunPrepare_no_pool_check(t) ==
    /\ thr[t].pc = "running"
    /\ LET ids == ActiveIds(store.smtp_accounts)
           loaded == LoadedIds(store.contacts, store.campaign.resend)
       IN  IF loaded = <<>>
           THEN /\ store' = [store EXCEPT !.campaign.status = "completed",
                                          !.campaign.emails_sent = 0,
                                          !.campaign.emails_failed = 0,
                                          !.campaign.error = "No contacts to send to"]
                /\ thr' = [thr EXCEPT ![t] = Ended]
                /\ active_campaigns' = 0
                /\ ledger' = ledger
           ELSE IF ~store.template
           THEN /\ store' = [store EXCEPT !.campaign.status = "failed",
                                          !.campaign.error = "Template not found"]
                /\ thr' = [thr EXCEPT ![t] = Ended]
                /\ active_campaigns' = 0
                /\ ledger' = ledger
           ELSE /\ thr' = [thr EXCEPT ![t] =
                             Prepared(@, store.smtp_accounts, store.contacts, ids,
                                      loaded, store.campaign.max_emails, now)]
                /\ ledger' = [ledger EXCEPT !.barred[t] = ledger.tripped]
                /\ UNCHANGED <<store, active_campaigns>>
    /\ UNCHANGED <<now, accounts, current_index, connections, faulty, req>>
    /\ UNCHANGED stepVars
    /\ UNCHANGED callerVars
    /\ UNCHANGED <<triggered, tpc, tsel>>
    /\ UNCHANGED signalVars

\* run_campaign from the loading of the accounts to the call of send_campaign:
\* the pool is built from the stored configuration of the active accounts and
\* the Contact objects from the stored contacts; the run ends at once when
\* there is no account, no contact, or no template.
RunPrepare(t) ==
    /\ thr[t].pc = "running"
    /\ LET ids == ActiveIds(store.smtp_accounts)
           loaded == LoadedIds(store.contacts, store.campaign.resend)
       IN  IF ids = <<>>
           THEN /\ store' = [store EXCEPT !.campaign.status = "failed",
                                          !.campaign.error =
                                    "No active SMTP accounts available or selected accounts not found"]
                /\ thr' = [thr EXCEPT ![t] = Ended]
                /\ active_campaigns' = 0
                /\ ledger' = ledger
           ELSE IF loaded = <<>>
           THEN /\ store' = [store EXCEPT !.campaign.status = "completed",
                                          !.campaign.emails_sent = 0,
                                          !.campaign.emails_failed = 0,
                                          !.campaign.error = "No contacts to send to"]
                /\ thr' = [thr EXCEPT ![t] = Ended]
                /\ active_campaigns' = 0
                /\ ledger' = ledger
           ELSE IF ~store.template
           THEN /\ store' = [store EXCEPT !.campaign.status = "failed",
                                          !.campaign.error = "Template not found"]
                /\ thr' = [thr EXCEPT ![t] = Ended]
                /\ active_campaigns' = 0
                /\ ledger' = ledger
           ELSE /\ thr' = [thr EXCEPT ![t] =
                             Prepared(@, store.smtp_accounts, store.contacts, ids,
                                      loaded, store.campaign.max_emails, now)]
                /\ ledger' = [ledger EXCEPT !.barred[t] = ledger.tripped]
                /\ UNCHANGED <<store, active_campaigns>>
    /\ UNCHANGED <<now, accounts, current_index, connections, faulty, req>>
    /\ UNCHANGED stepVars
    /\ UNCHANGED callerVars
    /\ UNCHANGED <<triggered, tpc, tsel>>
    /\ UNCHANGED signalVars

\* progress_callback: the stored contact with the email of the result.
StoredAfter(sc, result) ==
    IF result.success
    THEN [sc EXCEPT !.status = "sent", !.sent_count = sc.sent_count + 1]
    ELSE [sc EXCEPT !.status = "failed"]

\* The stored accounts of a pool that the circuit breaker has deactivated.
Tripped(accs, ids) == {ids[k] : k \in {j \in DOMAIN accs : ~accs[j].is_active}}

\* send_campaign of run t: one iteration of the loop of send_batch up to the
\* Storage.load of the progress callback, which changes the entry of the
\* contact in the list it loaded.
RunSend(t) ==
    /\ thr[t].pc = "sending"
    /\ thr[t].i < Len(thr[t].contacts)
    /\ LET k == thr[t].i + 1
           lc == thr[t].contacts[k]
       IN  IF lc.c.status = "unsubscribed"
           THEN /\ thr' = [thr EXCEPT ![t].i = k]
                /\ UNCHANGED ledger
           ELSE \E env \in Env :
                LET r == send_to_contact(thr[t].accounts, thr[t].current_index,
                                         thr[t].connections, lc.id, now, env)
                    a == IF r.account = 0 THEN 0 ELSE thr[t].ids[r.account]
                    l1 == [ledger EXCEPT
                             !.outcomes = @ + 1,
                             !.by[t] = @ + 1,
                             !.tripped = @ \cup Tripped(r.accounts, thr[t].ids)]
                IN  /\ EnvAllowed(env, a, faulty)
                    /\ thr' = [thr EXCEPT
                                 ![t].pc = "saving",
                                 ![t].i = k,
                                 ![t].accounts = r.accounts,
                                 ![t].current_index = r.current_index,
                                 ![t].connections = r.connections,
                                 ![t].contacts[k].c = UpdateContact(@, r.result, now),
                                 ![t].results = Append(@, r.result.success),
                                 ![t].loaded = [store.contacts EXCEPT ![lc.id] =
                                                   StoredAfter(@, r.result)]]
                    /\ ledger' = IF r.result.success
                                 THEN [l1 EXCEPT
                                         !.delivered[lc.id] = @ + 1,
                                         !.sent[a][Date(now)] = @ + 1]
                                 ELSE l1
    /\ UNCHANGED <<now, accounts, current_index, connections, faulty, req, store,
                   active_campaigns>>
    /\ UNCHANGED stepVars
    /\ UNCHANGED callerVars
    /\ UNCHANGED <<triggered, tpc, tsel>>
    /\ UNCHANGED signalVars

\* progress_callback of run t, its Storage.save: the list it loaded and
\* changed replaces the stored contacts.
CallbackSave(t) ==
    /\ thr[t].pc = "saving"
    /\ store' = [store EXCEPT !.contacts = thr[t].loaded]
    /\ thr' = [thr EXCEPT ![t].pc = "sending", ![t].loaded = <<>>]
    /\ UNCHANGED <<now, accounts, current_index, connections, faulty, req, ledger,
                   active_campaigns>>
    /\ UNCHANGED stepVars
    /\ UNCHANGED callerVars
    /\ UNCHANGED <<triggered, tpc, tsel>>
    /\ UNCHANGED signalVars

\* A variant of the end of the run that does not wait for the last contact.
RunFinish_before_end(t) ==
    /\ thr[t].pc = "sending"
    /\ LET n == Cardinality({j \in DOMAIN thr[t].results : thr[t].results[j]})
       IN  store' = [store EXCEPT !.campaign.status = "completed",
                                  !.campaign.emails_sent = n,
                                  !.campaign.emails_failed = Len(thr[t].results) - n]
    /\ thr' = [thr EXCEPT ![t] = Ended]
    /\ active_campaigns' = 0
    /\ UNCHANGED <<now, accounts, current_index, connections, faulty, req, ledger>>
    /\ UNCHANGED stepVars
    /\ UNCHANGED callerVars
    /\ UNCHANGED <<triggered, tpc, tsel>>
    /\ UNCHANGED signalVars

\* run_campaign after send_campaign returned: the campaign is 'completed' with
\* the counts of the statistics, and the finally clause removes the entry of
\* the campaign from active_campaigns.
RunFinish(t) ==
    /\ thr[t].pc = "sending"
    /\ thr[t].i = Len(thr[t].contacts)
    /\ LET n == Cardinality({j \in DOMAIN thr[t].results : thr[t].results[j]})
       IN  store' = [store EXCEPT !.campaign.status = "completed",
                                  !.campaign.emails_sent = n,
                                  !.campaign.emails_failed = Len(thr[t].results) - n]
    /\ thr' = [thr EXCEPT ![t] = Ended]
    /\ active_campaigns' = 0
    /\ UNCHANGED <<now, accounts, current_index, connections, faulty, req, ledger>>
    /\ UNCHANGED stepVars
    /\ UNCHANGED callerVars
    /\ UNCHANGED <<triggered, tpc, tsel>>
    /\ UNCHANGED signalVars

NextApp ==
    \/ Tick
    \/ \E r \in Threads : start_campaign(r)
    \/ \E r \in Threads : Register(r)
    \/ \E t \in Threads : RunMarkRunning(t)
    \/ \E t \in Threads : RunPrepare(t)
    \/ \E t \in Threads : RunSend(t)
    \/ \E t \in Threads : CallbackSave(t)
    \/ \E t \in Threads : RunFinish(t)

SpecApp == InitApp /\ [][NextApp]_vars

\* ================================================ claims on the application
\* The stored configuration yields no pool: no account, or none active.
NoActiveAccount ==
    \A a \in DOMAIN store.smtp_accounts : ~store.smtp_accounts[a].is_active

C19_OneActiveRun ==
    /\ Cardinality({t \in Threads : thr[t].pc \in {"sending", "saving"}}) <= 1
    /\ \A c \in DOMAIN ledger.initial :
          ledger.initial[c].status = "pending" /\ ~store.campaign.resend
              => ledger.delivered[c] <= 1

\* C20: the messages sent through one configured account within one day never
\* exceed its daily_limit, also when successive campaign runs, each with a pool
\* built from the stored configuration, sent them.
C20_DailyLimitAcrossRuns ==
    ~ledger.overlap =>
        \A a \in DOMAIN store.smtp_accounts : \A d \in Dates :
            ledger.sent[a][d] <= store.smtp_accounts[a].cfg.daily_limit

\* ======================================================= claims on the pool
\* The availability conditions of section 4.1, stated on one account.
DelayElapsed(a, t) ==
    a.last_sent_time # NoTime => t - a.last_sent_time >= a.delay_between_emails

AllFour(a, t) ==
    /\ a.is_active
    /\ a.sent_today < a.daily_limit
    /\ a.sent_this_hour < a.hourly_limit
    /\ DelayElapsed(a, t)

\* C1: every account of a pool driven by one run has sent_today <= daily_limit
\* and sent_this_hour <= hourly_limit, whatever selections, sends, failures and
\* clock advances happened.
C1_LimitsRespected ==
    \A i \in DOMAIN accounts :
        /\ accounts[i].sent_today <= accounts[i].daily_limit
        /\ accounts[i].sent_this_hour <= accounts[i].hourly_limit

\* An account that filled both quotas again after a day reset.
C1_Witness ==
    \E i \in DOMAIN accounts :
        /\ accounts[i].daily_limit > 0
        /\ accounts[i].sent_today = accounts[i].daily_limit
        /\ accounts[i].sent_this_hour = accounts[i].hourly_limit
        /\ accounts[i].last_reset_date > 0

\* C3: an account with max_failures failed attempts and no success in between is
\* inactive and is not returned by get_available_account; with fewer consecutive
\* failures (a success resets the count) it is still active.
C3_CircuitBreaker ==
    /\ \A i \in DOMAIN accounts :
          /\ consec[i] >= max_failures => ~accounts[i].is_active
          /\ consec[i] < max_failures => accounts[i].is_active
    /\ pc = "selected" => accounts[selected].is_active

\* One account is deactivated, had a success earlier on, and a later selection
\* returned another account.
C3_Witness ==
    /\ pc = "selected"
    /\ \E i \in DOMAIN accounts :
          /\ i # selected
          /\ ~accounts[i].is_active
          /\ consec[i] = max_failures
          /\ accounts[i].last_sent_time # NoTime

\* C4: once is_active is false no operation of the pool sets it back to true.
C4_DeactivationPermanent ==
    [][\A i \in DOMAIN accounts :
          ~accounts[i].is_active => ~accounts'[i].is_active]_vars

\* A deactivated account that sent on day 0, whose windows were reset on a later
\* day, and whose connection cache was cleared.
C4_Witness ==
    \E i \in DOMAIN accounts :
        /\ ~accounts[i].is_active
        /\ accounts[i].last_sent_time # NoTime
        /\ accounts[i].sent_today = 0
        /\ accounts[i].last_reset_date > 0
        /\ connections[i] = "absent"

\* The position after i in the ring; position 1 when nothing was returned yet.
RingNext(i) == (i % Len(accounts)) + 1

\* C5: while every account is available at each call, each call returns the
\* account after the previously returned one, so N consecutive calls return the N
\* accounts once each.
C5_RoundRobin ==
    /\ \A k \in DOMAIN selLog : selLog[k].ret = RingNext(selLog[k].prev)
    /\ Len(selLog) = Len(accounts) =>
          /\ {selLog[k].ret : k \in DOMAIN selLog} = DOMAIN accounts
          /\ \A j, k \in DOMAIN selLog : j # k => selLog[j].ret # selLog[k].ret

\* Three consecutive calls on a pool of three accounts, all available each time.
C5_Witness ==
    /\ Len(accounts) = 3
    /\ Len(selLog) = 3
    /\ selLog[1].prev # 0

\* C6: get_available_account returns an account only if, after the window reset,
\* it meets the four availability conditions; it returns None exactly when no
\* account meets them; it examines each account at most once.
C6_SelectionSound ==
    [][Select =>
        /\ \A i \in DOMAIN accounts :
              /\ accounts'[i].last_reset_date >= Date(now)
              /\ accounts'[i].last_reset_hour >= Hour(now)
        /\ selected' # 0 => AllFour(accounts'[selected'], now)
        /\ selected' = 0 <=> \A i \in DOMAIN accounts : ~AllFour(accounts'[i], now)
        /\ Len(scanned') <= Len(accounts)
        /\ \A j, k \in DOMAIN scanned' : j # k => scanned'[j] # scanned'[k]
    ]_vars

\* A call that returned None after examining two accounts, one of them still
\* active but out of quota, the other one held back only by its delay.
C6_Witness ==
    /\ outcome = "no_account"
    /\ Len(scanned) = 2
    /\ \E i, j \in DOMAIN accounts :
          /\ accounts[i].is_active
          /\ accounts[i].daily_limit > 0
          /\ accounts[i].sent_today = accounts[i].daily_limit
          /\ accounts[j].is_active
          /\ accounts[j].sent_today < accounts[j].daily_limit
          /\ accounts[j].sent_this_hour < accounts[j].hourly_limit
          /\ ~DelayElapsed(accounts[j], now)

\* C7 as stated: an active account at its daily limit is not returned during that
\* date, and the first get_available_account on a later date resets sent_today to
\* 0 and finds it available again; the same for the hourly limit and the hour.
\* Stated for the accounts whose limits are positive, those that used a quota up.
C7_AvailableAfterReset ==
    [][Select =>
        \A i \in DOMAIN accounts :
          (accounts[i].daily_limit > 0 /\ accounts[i].hourly_limit > 0) =>
            /\ (accounts[i].is_active /\ accounts[i].sent_today = accounts[i].daily_limit) =>
                  /\ Date(now) = accounts[i].last_reset_date => selected' # i
                  /\ Date(now) > accounts[i].last_reset_date =>
                        /\ accounts'[i].sent_today = 0
                        /\ AllFour(accounts'[i], now)
            /\ (accounts[i].is_active /\ accounts[i].sent_this_hour = accounts[i].hourly_limit) =>
                  /\ Hour(now) = accounts[i].last_reset_hour => selected' # i
                  /\ Hour(now) > accounts[i].last_reset_hour =>
                        /\ accounts'[i].sent_this_hour = 0
                        /\ AllFour(accounts'[i], now)
    ]_vars

\* C7 amended: the reset takes place as stated, and the account is available
\* again exactly when its other conditions hold as well: both limits positive
\* and the minimum delay elapsed (day), or the daily count below the daily
\* limit, the hourly limit positive and the minimum delay elapsed (hour).
C7_ResetThenOtherConditions ==
    [][Select =>
        \A i \in DOMAIN accounts :
            /\ (accounts[i].is_active /\ accounts[i].sent_today = accounts[i].daily_limit) =>
                  /\ Date(now) = accounts[i].last_reset_date => selected' # i
                  /\ Date(now) > accounts[i].last_reset_date =>
                        /\ accounts'[i].sent_today = 0
                        /\ accounts'[i].sent_this_hour = 0
                        /\ AllFour(accounts'[i], now) <=>
                              /\ accounts[i].daily_limit > 0
                              /\ accounts[i].hourly_limit > 0
                              /\ DelayElapsed(accounts[i], now)
            /\ (accounts[i].is_active /\ accounts[i].sent_this_hour = accounts[i].hourly_limit) =>
                  /\ Hour(now) = accounts[i].last_reset_hour => selected' # i
                  /\ Hour(now) > accounts[i].last_reset_hour =>
                        /\ accounts'[i].sent_this_hour = 0
                        /\ AllFour(accounts'[i], now) <=>
                              /\ accounts'[i].sent_today < accounts[i].daily_limit
                              /\ accounts[i].hourly_limit > 0
                              /\ DelayElapsed(accounts[i], now)
    ]_vars

\* An account that was at its daily limit on day 0 and was selected again on a
\* later day, after the reset.
C7_Witness ==
    /\ pc = "selected"
    /\ accounts[selected].daily_limit = 1
    /\ accounts[selected].last_sent_time # NoTime
    /\ Date(accounts[selected].last_sent_time) = 0
    /\ accounts[selected].last_reset_date = 1
    /\ accounts[selected].sent_today = 0

\* C13: a failed attempt consumes no quota: when get_connection or send_email
\* fails for an account, its sent_today, sent_this_hour and last_sent_time are
\* what they were before the attempt.
C13_FailureKeepsQuota ==
    [][(pc = "selected" /\ outcome' = "send_failed") =>
          /\ accounts'[selected].sent_today = accounts[selected].sent_today
          /\ accounts'[selected].sent_this_hour = accounts[selected].sent_this_hour
          /\ accounts'[selected].last_sent_time = accounts[selected].last_sent_time
    ]_vars

\* An attempt has just failed through an account that sent before in this hour.
C13_Witness ==
    /\ outcome = "send_failed"
    /\ accounts[selected].sent_this_hour > 0
    /\ accounts[selected].failure_count > 0
    /\ "connect" \in attempt.calls

\* C14: when neither rendered body has content the attempt fails with a
\* validation error before any network call: no connection is probed or opened
\* and no message is submitted.
C14_EmptyBodiesNoNetwork ==
    attempt.empty => attempt.calls = {}

\* C15: when the rendering raises, send_to_contact returns the failure that
\* carries the rendering error and attempts no delivery: no connection is
\* acquired and the selected account's sent_today, sent_this_hour,
\* last_sent_time, failure_count and is_active are unchanged.
C15_RenderFailureNoDelivery ==
    [][(pc = "selected" /\ outcome' = "render_error") =>
          /\ connections' = connections
          /\ accounts'[selected].sent_today = accounts[selected].sent_today
          /\ accounts'[selected].sent_this_hour = accounts[selected].sent_this_hour
          /\ accounts'[selected].last_sent_time = accounts[selected].last_sent_time
          /\ accounts'[selected].failure_count = accounts[selected].failure_count
          /\ accounts'[selected].is_active = accounts[selected].is_active
    ]_vars

\* The rendering has just failed for an account with a failure on its count and
\* a message sent, and no connection was opened for it.
C15_Witness ==
    /\ outcome = "render_error"
    /\ accounts[selected].failure_count > 0
    /\ accounts[selected].sent_today > 0
    /\ connections[selected] # "open"

\* C18: when two runs call send_to_contact concurrently against the same pool,
\* under every interleaving of their selections and statistics updates no
\* account has sent_today above daily_limit or sent_this_hour above
\* hourly_limit.
C18_LimitsUnderConcurrency ==
    ~ \E i \in DOMAIN accounts :
          \/ accounts[i].sent_today > accounts[i].daily_limit
          \/ accounts[i].sent_this_hour > accounts[i].hourly_limit

\* ===================================================== claims on the caller
\* The entries of contact c's follow-up history that carry the rule name.
HistoryEntries(c, name) ==
    Cardinality({k \in DOMAIN followup_history[c] :
                    followup_history[c][k].rule_name = name})

\* get_contacts_for_followup has just returned; nothing was sent since.
JustEvaluated ==
    \/ rpc = "fu" /\ bI = 0
    \/ rpc = "fu_done" /\ fuPairs = <<>> /\ results = <<>>

\* Rule k is enabled, under its cap for contact c, and due.
Qualifies(c, k) ==
    /\ rules[k].enabled
    /\ HistoryEntries(c, rules[k].name) < rules[k].max_followups
    /\ should_trigger(rules[k], contacts[c], current_date)

InPairs(c, k) == \E i \in DOMAIN fuPairs : fuPairs[i] = [contact |-> c, rule |-> k]

\* C2: an unsubscribed contact produces no outcome in send_batch: the iteration
\* that meets it makes no send attempt (the pool is untouched), changes nothing
\* of the contact and calls no progress callback; and it never appears in the
\* pairs returned by get_contacts_for_followup, whatever the rules, enabled
\* immediate rules included.
C2_UnsubscribedExcluded ==
    /\ [](/\ \A k \in DOMAIN fuPairs :
                contacts[fuPairs[k].contact].status # "unsubscribed"
          /\ rpc \in {"batch", "batch_done"} =>
                /\ \A k \in DOMAIN results :
                      startContacts[results[k].contact_email].status # "unsubscribed"
                /\ \A k \in DOMAIN cbLog :
                      startContacts[cbLog[k].result.contact_email].status
                          # "unsubscribed"
                /\ \A c \in DOMAIN startContacts :
                      startContacts[c].status = "unsubscribed" =>
                          contacts[c] = startContacts[c])
    /\ [][(/\ rpc = "batch"
           /\ bI < Len(bList)
           /\ bI' = bI + 1
           /\ contacts[bList[bI + 1]].status = "unsubscribed")
          => /\ accounts' = accounts
             /\ current_index' = current_index
             /\ connections' = connections
             /\ contacts' = contacts
             /\ results' = results
             /\ cbLog' = cbLog
       ]_vars

\* A follow-up pass that returned pairs but none for an unsubscribed contact that
\* an enabled immediate rule under its cap would otherwise select, after a
\* campaign that walked over that contact and attempted a later one.
C2_Witness ==
    /\ rpc = "fu"
    /\ bI = 0
    /\ \E c \in DOMAIN contacts :
          /\ contacts[c].status = "unsubscribed"
          /\ \E k \in DOMAIN rules :
                /\ rules[k].trigger = "immediate"
                /\ Qualifies(c, k)
          /\ \A i \in DOMAIN fuPairs : fuPairs[i].contact # c
          /\ \E d \in DOMAIN contacts :
                /\ d > c
                /\ \E n \in DOMAIN contacts[d].notes :
                      contacts[d].notes[n] = "No available SMTP accounts"

\* C8: send_campaign with max_emails = m given, m >= 0, over n pending contacts
\* produces exactly min(m, n) outcomes, for the first min(m, n) contacts in
\* input order, and leaves status, sent_count and last_sent_date of the
\* remaining contacts unchanged.
C8_MaxEmailsOutcomes ==
    (/\ rpc = "batch_done"
     /\ max_emails # <<>>
     /\ \A c \in DOMAIN startContacts : startContacts[c].status = "pending")
    => LET n == Len(startContacts)
           k == Min(max_emails[1], n)
       IN  /\ Len(results) = k
           /\ \A j \in 1 .. k : results[j].contact_email = j
           /\ \A c \in (k + 1) .. n :
                 /\ contacts[c].status = startContacts[c].status
                 /\ contacts[c].sent_count = startContacts[c].sent_count
                 /\ contacts[c].last_sent_date = startContacts[c].last_sent_date

\* C11: a days_after_no_reply rule with days = d is due for a contact exactly
\* when the rule is enabled, the contact's status is 'sent', its last_sent_date
\* is set and at least d days have elapsed since; with d = 3 a contact last
\* sent 3 days ago is due and one last sent 2 days ago is not.
C11_NoReplyDue ==
    (triggered # <<>> /\ rules[1].trigger = "days_after_no_reply") =>
        /\ triggered[1] <=>
              /\ rules[1].enabled
              /\ contacts[1].status = "sent"
              /\ contacts[1].last_sent_date # NoTime
              /\ now - contacts[1].last_sent_date >= rules[1].days * TicksPerDay
        /\ (/\ rules[1].enabled
            /\ rules[1].days = 3
            /\ contacts[1].status = "sent"
            /\ contacts[1].last_sent_date # NoTime) =>
              /\ now - contacts[1].last_sent_date = 3 * TicksPerDay => triggered[1]
              /\ now - contacts[1].last_sent_date = 2 * TicksPerDay => ~triggered[1]

\* A rule with days = 3 found due for a contact sent exactly 3 days before.
C11_Witness ==
    /\ triggered = <<TRUE>>
    /\ rules[1].trigger = "days_after_no_reply"
    /\ rules[1].days = 3
    /\ contacts[1].last_sent_date = 1
    /\ now - contacts[1].last_sent_date = 3 * TicksPerDay

\* C12: after send_batch a contact that was pending and whose attempt ended
\* with "No available SMTP accounts" still has status 'pending'.
C12_NoAccountStaysPending ==
    rpc \in {"batch", "batch_done"} =>
        \A k \in DOMAIN results :
            (/\ results[k].error_message = "No available SMTP accounts"
             /\ startContacts[results[k].contact_email].status = "pending")
            => contacts[results[k].contact_email].status = "pending"

\* The contacts among the first k of the batch that are not unsubscribed.
Attempted(k) == {i \in 1 .. k : startContacts[bList[i]].status # "unsubscribed"}

\* C16: per-contact failures never abort a batch: whatever attempts fail,
\* the loop has produced exactly one outcome for each contact it passed that
\* is not unsubscribed, in input order, and send_batch terminates, with one
\* outcome per such contact of the list.
C16_BatchNeverAborts ==
    /\ [](rpc \in {"batch", "batch_done"} =>
            /\ Len(results) = Cardinality(Attempted(bI))
            /\ \A k \in DOMAIN results :
                  /\ results[k].contact_email \in {bList[i] : i \in Attempted(bI)}
                  /\ \A j \in DOMAIN results :
                        j < k => results[j].contact_email < results[k].contact_email
            /\ rpc = "batch_done" => bI = Len(bList))
    /\ (rpc = "batch") ~> (rpc = "batch_done")

\* A batch that ended after an attempt failed on the transport and the next
\* contact was attempted all the same.
C16_Witness ==
    /\ rpc = "batch_done"
    /\ \E k \in DOMAIN results :
          /\ k < Len(results)
          /\ ~results[k].success
          /\ results[k].error_message = "SMTP send failed"

\* The follow-up cap, for the rules of the set R of positions in rules: the
\* history entries of a (contact, rule) pair never exceed max_followups, and no
\* pair still to be processed has reached it.
CapHolds(R) ==
    /\ \A c \in DOMAIN contacts : \A k \in R :
          HistoryEntries(c, rules[k].name) <= rules[k].max_followups
    /\ rpc = "fu" =>
          \A i \in (bI + 1) .. Len(fuPairs) :
              fuPairs[i].rule \in R =>
                  HistoryEntries(fuPairs[i].contact, rules[fuPairs[i].rule].name)
                      < rules[fuPairs[i].rule].max_followups

\* C9 as stated: for every (contact, rule) pair, after any sequence of
\* process_followups runs over contacts with distinct emails, the history
\* entries for the pair never exceed rule.max_followups, and
\* get_contacts_for_followup never returns a pair whose count reached it.
C9_CapPerPair == CapHolds(DOMAIN rules)

DistinctNames ==
    \A j, k \in DOMAIN rules : rules[j].name = rules[k].name => j = k

\* C9 amended: the same, for rules registered under distinct names.
C9_CapPerNamedRule == DistinctNames => CapHolds(DOMAIN rules)

\* A pass over rules with distinct names that left out a pair whose rule is
\* enabled and still triggers, because its count has reached max_followups.
C9_Witness ==
    /\ JustEvaluated
    /\ DistinctNames
    /\ \E c \in DOMAIN contacts : \E k \in DOMAIN rules :
          /\ contacts[c].status # "unsubscribed"
          /\ rules[k].enabled
          /\ rules[k].max_followups > 0
          /\ HistoryEntries(c, rules[k].name) = rules[k].max_followups
          /\ should_trigger(rules[k], contacts[c], current_date)
          /\ ~InPairs(c, k)

\* C10: in one evaluation of get_contacts_for_followup a contact contributes at
\* most one pair, and the rule of that pair is the first one in registration
\* order that is enabled, under its max_followups count for the contact and
\* due; no later rule is selected for the contact in that pass.
C10_FirstRuleWins ==
    JustEvaluated =>
        /\ \A i, j \in DOMAIN fuPairs :
              fuPairs[i].contact = fuPairs[j].contact => i = j
        /\ \A i \in DOMAIN fuPairs :
              /\ Qualifies(fuPairs[i].contact, fuPairs[i].rule)
              /\ \A k \in 1 .. (fuPairs[i].rule - 1) : ~Qualifies(fuPairs[i].contact, k)

\* A pass in which a contact had two qualifying rules and got the earlier one.
C10_Witness ==
    /\ JustEvaluated
    /\ \E i \in DOMAIN fuPairs : \E k \in DOMAIN rules :
          /\ k > fuPairs[i].rule
          /\ Qualifies(fuPairs[i].contact, k)

\* ================================================= claims on the batch loop
\* The positions of the batch after i whose contact is not unsubscribed: the
\* attempts still to come.
LaterAttempts(i) ==
    {j \in (i + 1) .. Len(bList) : contacts[bList[j]].status # "unsubscribed"}

\* The loop of send_batch makes the attempt for the contact at position bI + 1.
AttemptStep ==
    /\ rpc = "batch"
    /\ bI < Len(bList)
    /\ bI' = bI + 1
    /\ contacts[bList[bI + 1]].status # "unsubscribed"

\* C22: in send_batch the global delay is slept between consecutive attempts
\* and never after the last attempt of the batch, also when the contacts that
\* follow the last attempt in the list are unsubscribed and skipped.
C22_GlobalDelayBetweenAttempts ==
    [][AttemptStep =>
          ("global_delay" \in slept' <=> LaterAttempts(bI + 1) # {})
    ]_vars

\* C24: within one send_batch or process_followups call the contacts are
\* attempted in input order, and the progress callback is invoked exactly once
\* per attempt, in that order: each invocation carries the final outcome of its
\* attempt and is made in the iteration of that attempt, before the attempt of
\* the next contact starts.
C24_CallbackPerAttemptInOrder ==
    /\ [](/\ rpc \in {"batch", "batch_done"} =>
                /\ Len(cbLog) = Len(results)
                /\ \A k \in DOMAIN cbLog :
                      /\ cbLog[k].result = results[k]
                      /\ cbLog[k].i \in 1 .. bI
                      /\ cbLog[k].total = Len(bList)
                      /\ bList[cbLog[k].i] = results[k].contact_email
                      /\ \A j \in 1 .. (k - 1) :
                            /\ cbLog[j].i < cbLog[k].i
                            /\ bList[cbLog[j].i] < bList[cbLog[k].i]
          /\ rpc \in {"fu", "fu_done"} =>
                /\ Len(cbLog) = Len(results)
                /\ Len(results) = (IF rpc = "fu" THEN bI ELSE Len(fuPairs))
                /\ \A k \in DOMAIN cbLog :
                      /\ cbLog[k].result = results[k]
                      /\ cbLog[k].i = k
                      /\ cbLog[k].total = Len(fuPairs)
                      /\ results[k].contact_email = fuPairs[k].contact
                      /\ \A j \in 1 .. (k - 1) :
                            fuPairs[j].contact < fuPairs[k].contact)
    /\ [][(rpc \in {"batch", "fu"} /\ rpc' = rpc /\ results' # results) =>
             /\ Len(results') = Len(results) + 1
             /\ cbLog' = Append(cbLog,
                                [i |-> bI',
                                 total |-> IF rpc = "batch" THEN Len(bList)
                                           ELSE Len(fuPairs),
                                 result |-> results'[Len(results')]])
       ]_vars

\* A batch that ended after two attempts with an unsubscribed contact between
\* them, the first of them a failure: two invocations, for positions 1 and 3.
C24_Witness ==
    /\ rpc = "batch_done"
    /\ Len(cbLog) = 2
    /\ cbLog[1].i = 1
    /\ cbLog[2].i = 3
    /\ ~cbLog[1].result.success

\* The success outcomes of the batch under way for contact c.
Successes(c) ==
    Cardinality({k \in DOMAIN results :
                    results[k].contact_email = c /\ results[k].success})

\* C25: for each contact send_batch processes, a success outcome makes its
\* status 'sent', adds exactly one to sent_count and sets last_sent_date; a
\* failure outcome makes its status 'failed', appends the error reason to notes
\* and leaves sent_count and last_sent_date as they were.  No other step of a
\* campaign touches a contact, hence across batches the increase of a contact's
\* sent_count is the number of its success outcomes.
C25_ContactUpdate ==
    /\ [][IF AttemptStep
          THEN LET c == bList[bI + 1]
                   r == results'[Len(results')]
               IN  /\ Len(results') = Len(results) + 1
                   /\ r.contact_email = c
                   /\ \A d \in DOMAIN contacts : d # c => contacts'[d] = contacts[d]
                   /\ contacts'[c].follow_up_date = contacts[c].follow_up_date
                   /\ IF r.success
                      THEN /\ contacts'[c].status = "sent"
                           /\ contacts'[c].sent_count = contacts[c].sent_count + 1
                           /\ contacts'[c].last_sent_date = now
                           /\ contacts'[c].notes = contacts[c].notes
                      ELSE /\ contacts'[c].status = "failed"
                           /\ contacts'[c].notes
                                 = Append(contacts[c].notes, r.error_message)
                           /\ contacts'[c].sent_count = contacts[c].sent_count
                           /\ contacts'[c].last_sent_date = contacts[c].last_sent_date
          ELSE contacts' = contacts
       ]_vars
    /\ [](rpc \in {"batch", "batch_done"} =>
            \A c \in DOMAIN contacts :
                contacts[c].sent_count = startContacts[c].sent_count + Successes(c))

\* A second batch has ended in which a contact that an earlier batch delivered
\* to failed: the reason was appended to the note it had, and its sent_count
\* still counts the two deliveries made before.
C25_Witness ==
    /\ rpc = "batch_done"
    /\ runs = 2
    /\ \E c \in DOMAIN contacts :
          /\ contacts[c].status = "failed"
          /\ Len(contacts[c].notes) = 2
          /\ contacts[c].sent_count = 2
          /\ Successes(c) = 0

\* C26: the statistics send_campaign returns have total = the number of
\* outcomes produced = successful + failed, successful = the number of success
\* outcomes, and success_rate = successful / total * 100, which is 0 when
\* total is 0.
C26_CampaignStatistics ==
    rpc = "batch_done" =>
        LET ok == {k \in DOMAIN results : results[k].success}
            ko == {k \in DOMAIN results : ~results[k].success}
        IN  /\ stats.total = Len(results)
            /\ stats.successful = Cardinality(ok)
            /\ stats.failed = Cardinality(ko)
            /\ stats.total = stats.successful + stats.failed
            /\ stats.success_rate[2] > 0
            /\ stats.success_rate[1] * stats.total
                  = stats.successful * 100 * stats.success_rate[2]
            /\ stats.total = 0 => stats.success_rate[1] = 0

\* A campaign returned statistics over one success and two failures: a rate
\* of 100/3.
C26_Witness ==
    /\ rpc = "batch_done"
    /\ stats.successful = 1
    /\ stats.failed = 2
    /\ stats.success_rate = <<100, 3>>

\* ============================================ claims on the follow-up loop
\* The loop of process_followups makes the attempt for the pair at bI + 1.
FollowUpAttempt ==
    /\ rpc = "fu"
    /\ bI < Len(fuPairs)
    /\ bI' = bI + 1

\* C27: every follow-up attempt of process_followups appends exactly one entry
\* to the history of its contact, under the name of its rule, whether the send
\* succeeded or failed (for lack of an available account included): the count
\* get_followup_count reads for the pair rises by one and counts toward
\* max_followups; when the attempt failed the contact's status is 'failed'.
C27_HistoryEveryAttempt ==
    /\ [][FollowUpAttempt =>
            LET c == fuPairs[bI + 1].contact
                rule == rules[fuPairs[bI + 1].rule]
                r == results'[Len(results')]
                last == followup_history'[c][Len(followup_history'[c])]
            IN  /\ Len(results') = Len(results) + 1
                /\ Len(followup_history'[c]) = Len(followup_history[c]) + 1
                /\ SubSeq(followup_history'[c], 1, Len(followup_history[c]))
                      = followup_history[c]
                /\ last.rule_name = rule.name
                /\ last.success = r.success
                /\ \A d \in DOMAIN contacts :
                      d # c => followup_history'[d] = followup_history[d]
                /\ Cardinality({k \in DOMAIN followup_history'[c] :
                                   followup_history'[c][k].rule_name = rule.name})
                      = HistoryEntries(c, rule.name) + 1
                /\ ~r.success => contacts'[c].status = "failed"
       ]_vars
    /\ [](rpc = "fu" =>
            \A i \in (bI + 1) .. Len(fuPairs) :
                HistoryEntries(fuPairs[i].contact, rules[fuPairs[i].rule].name)
                    < rules[fuPairs[i].rule].max_followups)

\* A follow-up that failed for lack of an available account is on the history
\* of its contact, whose status is 'failed', and it has used up the only
\* follow-up its rule allows: a later pass found the rule due and left it out.
C27_Witness ==
    /\ JustEvaluated
    /\ runs = 2
    /\ \E c \in DOMAIN contacts : \E k \in DOMAIN rules :
          /\ contacts[c].status = "failed"
          /\ rules[k].max_followups = 1
          /\ followup_history[c]
                = <<[rule_name |-> rules[k].name, success |-> FALSE,
                     error |-> "No available SMTP accounts"]>>
          /\ rules[k].enabled
          /\ should_trigger(rules[k], contacts[c], current_date)
          /\ ~InPairs(c, k)

\* C28: after a successful follow-up under a rule, follow_up_date is
\* now + rule.days exactly when the contact's count of follow-ups for the rule,
\* the attempt just recorded included, is still below rule.max_followups; when
\* the count has reached max_followups follow_up_date is what it was.
C28_NextFollowUpScheduled ==
    [][(FollowUpAttempt /\ results'[Len(results')].success) =>
          LET c == fuPairs[bI + 1].contact
              rule == rules[fuPairs[bI + 1].rule]
              n == Cardinality({k \in DOMAIN followup_history'[c] :
                                   followup_history'[c][k].rule_name = rule.name})
          IN  contacts'[c].follow_up_date
                 = IF n < rule.max_followups
                   THEN now + rule.days * TicksPerDay
                   ELSE contacts[c].follow_up_date
    ]_vars

\* A contact got the two follow-ups its rule allows, both delivered: the first
\* scheduled the next one, the second, a day later, left that date alone.
C28_Witness ==
    \E c \in DOMAIN contacts : \E k \in DOMAIN rules :
        /\ rules[k].max_followups = 2
        /\ Len(followup_history[c]) = 2
        /\ \A j \in DOMAIN followup_history[c] :
              /\ followup_history[c][j].rule_name = rules[k].name
              /\ followup_history[c][j].success
        /\ contacts[c].follow_up_date # NoTime
        /\ contacts[c].follow_up_date + rules[k].days * TicksPerDay
              < contacts[c].last_sent_date

\* ============================================= claims on the error taxonomy
\* C30: a validation error (a connection was obtained and both rendered bodies
\* are empty) is handled like a rendering error and is not charged to the
\* account: the selected account's failure_count and is_active are unchanged,
\* so no number of empty-body attempts deactivates an account.
C30_ValidationErrorNotCharged ==
    [][(/\ pc = "selected"
        /\ pc' = "idle"
        /\ attempt'.empty
        /\ connections'[selected] = "open") =>
          /\ accounts'[selected].failure_count = accounts[selected].failure_count
          /\ accounts'[selected].is_active = accounts[selected].is_active
    ]_vars

\* ------------------------------------------------- send_batch, long lists
\* Lists longer than one batch: batch_size + 2 contacts, pending except those
\* at the positions U, which are unsubscribed.
LongLen == batch_size + 2

LongList(U) ==
    [k \in 1 .. LongLen |-> IF k \in U THEN Unsubscribed ELSE Pending]

PacingLists == {LongList(U) : U \in {{}, {1}, {batch_size}}}

\* Campaigns over a long list, through a pool of one account.
InitPacing ==
    /\ InitPoolFrom({Pool(<<Cfg(1, 1, 0)>>, {})})
    /\ \E l \in PacingLists :
          /\ contacts = l
          /\ followup_history = [c \in DOMAIN l |-> <<>>]
    /\ rules = <<>>
    /\ rpc = "idle"
    /\ runs = 0
    /\ max_emails = <<>>
    /\ startContacts = <<>>
    /\ bList = <<>>
    /\ bI = 0
    /\ results = <<>>
    /\ cbLog = <<>>
    /\ slept = {}
    /\ fuPairs = <<>>
    /\ current_date = NoTime
    /\ stats = NoStats
    /\ InitExtra

NextPacing ==
    \/ StartCampaign
    \/ BatchStep
    \/ BatchEnd
    \/ Return

SpecPacing == InitPacing /\ [][NextPacing]_vars

\* C23: in send_batch the batch delay is slept after every batch_size-th
\* attempt, counting the attempts and not the positions of the list, unless
\* that attempt was the final one; also for lists with unsubscribed contacts at
\* or before a position that is a multiple of batch_size.
C23_BatchDelayEveryBatchSizeAttempts ==
    [][AttemptStep =>
          ("batch_delay" \in slept'
              <=> (Len(results') % batch_size = 0 /\ LaterAttempts(bI + 1) # {}))
    ]_vars

\* --------------------------------------------- campaigns and their caller
\* The caller of a running campaign asks for its cancellation.  send_batch and
\* send_campaign take no argument and read no attribute that could carry the
\* request: it is recorded on the caller's side only.
RequestCancel ==
    /\ rpc = "batch"
    /\ cancelled # runs
    /\ cancelled' = runs
    /\ UNCHANGED <<now, accounts, current_index, connections, faulty>>
    /\ UNCHANGED stepVars
    /\ UNCHANGED callerVars
    /\ UNCHANGED <<triggered, tpc, tsel>>
    /\ UNCHANGED appVars

NextCancel ==
    \/ (rpc \in {"idle", "batch"} /\ Tick)
    \/ StartCampaign
    \/ RequestCancel
    \/ BatchStep
    \/ BatchEnd
    \/ Return

SpecCancel == InitRun /\ [][NextCancel]_vars

\* C21: a running send_batch observes a cancellation signal at least once per
\* contact iteration: once the caller has asked for the cancellation of the
\* run, no further contact is attempted and no pacing delay is slept.
C21_CancellationObserved ==
    [][(rpc = "batch" /\ cancelled = runs) =>
          /\ ~AttemptStep
          /\ results' = results
          /\ slept' \subseteq slept
    ]_vars

\* ===================================================== claims on shutdown
\* C29: close_all_connections is idempotent: called twice in a row it never
\* raises, also when the quit() of a cached connection raises, and the
\* connection cache is empty after each call.
C29_CloseAllIdempotent ==
    closeLog.calls > 0 =>
        /\ ~closeLog.raised
        /\ \A i \in DOMAIN connections : connections[i] = "absent"

\* close_all_connections was called twice in a row, and the quit() of a cached
\* connection raised in the first call.
C29_Witness ==
    /\ closeLog.calls = 2
    /\ closeLog.quit_raised

\* ============================================ claims on the pool, continued
\* C31: within one pool driven by a single run, two successful sends through
\* the same account are at least the account's delay_between_emails seconds of
\* clock time apart: a success finds the previous success of its account, if
\* there is one, that far back.
C31_DelayBetweenSends ==
    [][(pc = "selected" /\ outcome' = "ok"
            /\ accounts[selected].last_sent_time # NoTime) =>
          accounts'[selected].last_sent_time - accounts[selected].last_sent_time
              >= accounts[selected].delay_between_emails
    ]_vars

\* An account with a delay has just sent its second message of the hour, while
\* its hourly and daily limits left room for it.
C31_Witness ==
    /\ outcome = "ok"
    /\ pc = "idle"
    /\ accounts[selected].delay_between_emails > 0
    /\ accounts[selected].sent_this_hour = 2
    /\ accounts[selected].last_reset_hour = Hour(accounts[selected].last_sent_time)

\* C36: within one pool driven through send_to_contact by a single run, every
\* account has failure_count <= max_failures, and is_active is false exactly
\* when failure_count >= max_failures.
C36_FailureCountInvariant ==
    \A i \in DOMAIN accounts :
        /\ accounts[i].failure_count <= max_failures
        /\ accounts[i].is_active <=> accounts[i].failure_count < max_failures

\* A selection found no account: the only one left with quota was deactivated
\* at max_failures, after it had sent.
C36_Witness ==
    /\ outcome = "no_account"
    /\ \E i \in DOMAIN accounts :
          /\ accounts[i].failure_count = max_failures
          /\ ~accounts[i].is_active
          /\ accounts[i].sent_today > 0
          /\ accounts[i].sent_today < accounts[i].daily_limit

\* ================================= claims on the follow-up loop, continued
\* C37: a successful follow-up leaves the status of the contact as it was: it
\* changes last_sent_date, sent_count and possibly follow_up_date, and nothing
\* else; a contact with status 'failed' is still 'failed' after a
\* days_after_failure follow-up that was delivered.
C37_FollowUpKeepsStatus ==
    [][(FollowUpAttempt /\ results'[Len(results')].success) =>
          LET c == fuPairs[bI + 1].contact
          IN  /\ contacts'[c].status = contacts[c].status
              /\ contacts'[c].notes = contacts[c].notes
              /\ contacts'[c].sent_count = contacts[c].sent_count + 1
              /\ contacts'[c].last_sent_date = now
              /\ \A d \in DOMAIN contacts : d # c => contacts'[d] = contacts[d]
    ]_vars

\* A contact whose campaign message had failed got a days_after_failure
\* follow-up delivered and is still 'failed'.
C37_Witness ==
    /\ rpc = "fu"
    /\ bI > 0
    /\ results[bI].success
    /\ rules[fuPairs[bI].rule].trigger = "days_after_failure"
    /\ contacts[fuPairs[bI].contact].status = "failed"
    /\ contacts[fuPairs[bI].contact].sent_count
          = startContacts[fuPairs[bI].contact].sent_count + 1

\* An enabled immediate rule, for the rules at the positions R: for a contact
\* that is not unsubscribed the entries recorded under the rule never exceed
\* its max_followups; an evaluation made while they are below it returns the
\* contact, with this rule or with one registered before it; and an
\* evaluation made when they have reached it does not return the pair.
ImmediateUntilCap(R) ==
    \A c \in DOMAIN contacts : \A k \in R :
        (/\ rules[k].trigger = "immediate"
         /\ rules[k].enabled
         /\ contacts[c].status # "unsubscribed") =>
            /\ HistoryEntries(c, rules[k].name) <= rules[k].max_followups
            /\ JustEvaluated =>
                  IF HistoryEntries(c, rules[k].name) < rules[k].max_followups
                  THEN \E j \in 1 .. k : InPairs(c, j)
                  ELSE ~InPairs(c, k)

\* C33 as stated: an enabled immediate rule with max_followups = k is due for a
\* contact that is not unsubscribed in every evaluation while the contact's
\* history count for the rule is below k, whatever its status and
\* last_sent_date; over successive process_followups runs it is attempted
\* exactly k times for the contact and never again.
C33_ImmediateExactlyK == ImmediateUntilCap(DOMAIN rules)

\* C33 amended: the same, for the rules registered under distinct names.
C33_ImmediateExactlyKNamed == DistinctNames => ImmediateUntilCap(DOMAIN rules)

\* An evaluation over rules with distinct names left out a contact that was
\* never delivered to: the one follow-up its immediate rule allows was made,
\* and failed.
C33_Witness ==
    /\ JustEvaluated
    /\ DistinctNames
    /\ \E c \in DOMAIN contacts : \E k \in DOMAIN rules :
          /\ rules[k].trigger = "immediate"
          /\ rules[k].enabled
          /\ contacts[c].status = "failed"
          /\ contacts[c].last_sent_date = NoTime
          /\ HistoryEntries(c, rules[k].name) = rules[k].max_followups
          /\ \A i \in DOMAIN fuPairs : fuPairs[i].contact # c

\* ==================================== claims on the application, continued
\* Every start_campaign request has returned and no run is under way.
Quiescent ==
    /\ \A r \in Threads : req[r] \in {"registered", "rejected"}
    /\ \A t \in Threads : ~Live(t)

\* C39: once the background run of a campaign has finished, active_campaigns
\* holds no entry for the campaign, under every interleaving of the thread
\* start and the registration in start_campaign with the cleanup of the run:
\* when every request has returned and every run has ended, the entry is gone.
C39_RegistryCleared == Quiescent => active_campaigns = 0

\* C34: the updates of the stored contacts are serialized per contact: when
\* the progress callbacks of two runs interleave, no update written by one run
\* is lost; once no callback is between its load and its save, each stored
\* sent_count is the stored count at the start plus the number of success
\* outcomes reported for the contact.
C34_ContactUpdatesSerialized ==
    (\A t \in Threads : thr[t].pc # "saving") =>
        \A c \in DOMAIN store.contacts :
            store.contacts[c].sent_count =
                ledger.initial[c].sent_count + ledger.delivered[c]

\* ------------------------------------------ the contacts API during a run
\* PUT /api/contacts/<id> with {'status': 'unsubscribed'}: Storage.update on
\* the stored contact c.
update_contact(c) ==
    /\ c \in DOMAIN store.contacts
    /\ store.contacts[c].status # "unsubscribed"
    /\ store' = [store EXCEPT !.contacts[c].status = "unsubscribed"]
    /\ UNCHANGED <<now, accounts, current_index, connections, faulty, req, thr,
                   ledger, active_campaigns>>
    /\ UNCHANGED stepVars
    /\ UNCHANGED callerVars
    /\ UNCHANGED <<triggered, tpc, tsel>>
    /\ UNCHANGED signalVars

\* One active account that can deliver to every contact.
InitUnsub ==
    InitAppFrom({<<StoredAccount(Cfg(2, 2, 0), TRUE)>>}, ContactStores,
                CampaignData, {TRUE}, {})

\* The ids of the stored contacts.
ContactIds == 1 .. 2

\* The requests and the runs within one tick of the clock, and the contacts API.
NextUnsub ==
    \/ \E r \in Threads : start_campaign(r)
    \/ \E r \in Threads : Register(r)
    \/ \E t \in Threads : RunMarkRunning(t)
    \/ \E t \in Threads : RunPrepare(t)
    \/ \E t \in Threads : RunSend(t)
    \/ \E t \in Threads : CallbackSave(t)
    \/ \E t \in Threads : RunFinish(t)
    \/ \E c \in ContactIds : update_contact(c)

SpecUnsub == InitUnsub /\ [][NextUnsub]_vars

\* C35: a contact whose stored status is set to 'unsubscribed' while a run is
\* in progress is not mailed by that run afterwards, and the progress callback
\* of the run never overwrites the stored 'unsubscribed' with 'sent' or
\* 'failed': from a state where a contact is stored as unsubscribed, no step
\* delivers a message to it or changes its stored status.
C35_UnsubscribedDuringRun ==
    [][\A c \in DOMAIN store.contacts :
          store.contacts[c].status = "unsubscribed" =>
              /\ ledger'.delivered[c] = ledger.delivered[c]
              /\ store'.contacts[c].status = "unsubscribed"]_vars

\* ------------------------------------- the circuit breaker across the runs
\* One stored account whose attempts may fail, and as many stored contacts as
\* the circuit breaker needs failures; the campaign is sent to all of them
\* each time it is started.
InitBreaker ==
    InitAppFrom({<<StoredAccount(Cfg(1, 1, 0), TRUE)>>},
                {[c \in 1 .. max_failures |-> StoredContact("pending", 0)]},
                {[resend |-> TRUE, max_emails |-> <<>>]}, {TRUE}, {1})

\* A start request that arrives while no run is under way.
start_later(r) ==
    /\ \A t \in Threads : ~Live(t)
    /\ start_campaign(r)

\* Successive requests and their runs, within one tick of the clock.
NextBreaker ==
    \/ \E r \in Threads : start_later(r)
    \/ \E r \in Threads : Register(r)
    \/ \E t \in Threads : RunMarkRunning(t)
    \/ \E t \in Threads : RunPrepare(t)
    \/ \E t \in Threads : RunSend(t)
    \/ \E t \in Threads : CallbackSave(t)
    \/ \E t \in Threads : RunFinish(t)

SpecBreaker == InitBreaker /\ [][NextBreaker]_vars

\* C32: an account the circuit breaker deactivated during one campaign run
\* stays excluded from selection in every later run: the pool of a run holds
\* no account that was deactivated before the run built it, and the run
\* delivers nothing through such an account.
C32_BreakerAcrossRuns ==
    /\ [](\A t \in Threads : \A k \in DOMAIN thr[t].ids :
          thr[t].ids[k] \notin ledger.barred[t])
    /\ [][\A t \in Threads : \A a \in ledger.barred[t] : \A d \in Dates :
             thr'[t].i # thr[t].i => ledger'.sent[a][d] = ledger.sent[a][d]]_vars

\* --------------------------------------------------- the runs to their end
\* run_campaign, its except clause: an exception raised inside the try block
\* is logged, the campaign is stored as 'failed' with the message, and the
\* finally clause removes the entry of the campaign from active_campaigns.
RunRaise(t) ==
    /\ Live(t)
    /\ store' = [store EXCEPT !.campaign.status = "failed",
                              !.campaign.error = "exception"]
    /\ thr' = [thr EXCEPT ![t] = Ended]
    /\ active_campaigns' = 0
    /\ UNCHANGED <<now, accounts, current_index, connections, faulty, req, ledger>>
    /\ UNCHANGED stepVars
    /\ UNCHANGED callerVars
    /\ UNCHANGED <<triggered, tpc, tsel>>
    /\ UNCHANGED signalVars

\* Two pending contacts; any attempt may fail.
InitLife ==
    InitAppFrom(AccountStores,
                {<<StoredContact("pending", 0), StoredContact("pending", 0)>>},
                [resend : BOOLEAN, max_emails : {<<>>}], BOOLEAN, {1, 2})

\* A step of the thread of run t.
ThreadStep(t) ==
    \/ RunMarkRunning(t)
    \/ RunPrepare(t)
    \/ RunSend(t)
    \/ CallbackSave(t)
    \/ RunFinish(t)
    \/ RunRaise(t)

NextLife ==
    \/ \E r \in Threads : start_campaign(r)
    \/ \E r \in Threads : Register(r)
    \/ \E t \in Threads : RunMarkRunning(t)
    \/ \E t \in Threads : RunPrepare(t)
    \/ \E t \in Threads : RunSend(t)
    \/ \E t \in Threads : CallbackSave(t)
    \/ \E t \in Threads : RunFinish(t)
    \/ \E t \in Threads : RunRaise(t)

\* A thread that was started keeps being scheduled until it returns: weak
\* fairness of its steps, which are enabled exactly while it is live.
ThreadsScheduled ==
    \A t \in Threads : ([]<>~Live(t)) \/ ([]<><<ThreadStep(t)>>_vars)

SpecLife == InitLife /\ [][NextLife]_vars /\ ThreadsScheduled

\* C38: every started run eventually leaves the 'running' state: whatever
\* happens in it (no accounts, no contacts, missing template, all sends
\* failing, an exception), its thread returns with the campaign stored as
\* 'completed' or 'failed'; and a run stores 'completed' only when every one
\* of its contacts has been processed, with emails_sent + emails_failed equal
\* to the number of its outcomes.
C38_RunTerminates ==
    /\ \A t \in Threads :
          (thr[t].pc = "started") ~>
              (thr[t].pc = "ended"
               /\ store.campaign.status \in {"completed", "failed"})
    /\ [][\A t \in Threads :
             (/\ thr[t].pc # "ended"
              /\ thr'[t].pc = "ended"
              /\ store'.campaign.status = "completed") =>
                 /\ thr[t].i = Len(thr[t].contacts)
                 /\ ledger.by[t] =
                       Cardinality({k \in DOMAIN thr[t].contacts :
                                       thr[t].contacts[k].c.status # "unsubscribed"})
                 /\ store'.campaign.emails_sent + store'.campaign.emails_failed
                       = ledger.by[t]]_vars

\* Two runs have ended, one of them by an exception, and the campaign is left
\* completed by the other, all of whose sends failed.
C38_Witness ==
    /\ \A t \in Threads : thr[t].pc = "ended"
    /\ store.campaign.status = "completed"
    /\ store.campaign.error = "exception"
    /\ store.campaign.emails_sent = 0
    /\ store.campaign.emails_failed = 2

\* ------------------------------------------------------------------ Storage
\* app/models/storage.py, the entities of one type: store is the list in the
\* file of the type; an entity is its id (str(n), written n) and its data.
MaxAdds == 4

\* The data of an entity as it was added.
Created == "created"

\* The data an update may give an entity.
Updates == {"a", "b"}

\* Storage.get: the first stored entity with the id, <<>> for None.
StorageGet(entities, id) ==
    IF \E k \in DOMAIN entities : entities[k].id = id
    THEN <<entities[CHOOSE k \in DOMAIN entities :
                       /\ entities[k].id = id
                       /\ \A j \in 1 .. k - 1 : entities[j].id # id]>>
    ELSE <<>>

InitStorage ==
    /\ InitPoolFrom({Pool(<<>>, {})})
    /\ InitNoRun
    /\ InitIdle
    /\ store = <<>>
    /\ req = <<>>
    /\ thr = <<>>
    /\ active_campaigns = 0
    /\ ledger = [adds |-> 0]

\* Storage.add of an entity without an id: its id is the number of stored
\* entities plus one.
StorageAdd ==
    /\ ledger.adds < MaxAdds
    /\ store' = Append(store, [id |-> Len(store) + 1, data |-> Created])
    /\ ledger' = [ledger EXCEPT !.adds = @ + 1]
    /\ UNCHANGED <<now, accounts, current_index, connections, faulty, req, thr,
                   active_campaigns>>
    /\ UNCHANGED stepVars
    /\ UNCHANGED callerVars
    /\ UNCHANGED <<triggered, tpc, tsel>>
    /\ UNCHANGED signalVars

\* Storage.update: the first stored entity with the id takes the data.
StorageUpdate(id, d) ==
    /\ StorageGet(store, id) # <<>>
    /\ LET k == CHOOSE k \in DOMAIN store :
                    /\ store[k].id = id
                    /\ \A j \in 1 .. k - 1 : store[j].id # id
       IN  /\ store[k].data # d
           /\ store' = [store EXCEPT ![k].data = d]
    /\ UNCHANGED <<now, accounts, current_index, connections, faulty, req, thr,
                   ledger, active_campaigns>>
    /\ UNCHANGED stepVars
    /\ UNCHANGED callerVars
    /\ UNCHANGED <<triggered, tpc, tsel>>
    /\ UNCHANGED signalVars

\* Storage.delete: every stored entity with the id is removed.
StorageDelete(id) ==
    /\ \E k \in DOMAIN store : store[k].id = id
    /\ store' = SelectSeq(store, LAMBDA e : e.id # id)
    /\ UNCHANGED <<now, accounts, current_index, connections, faulty, req, thr,
                   ledger, active_campaigns>>
    /\ UNCHANGED stepVars
    /\ UNCHANGED callerVars
    /\ UNCHANGED <<triggered, tpc, tsel>>
    /\ UNCHANGED signalVars

NextStorage ==
    \/ StorageAdd
    \/ \E id \in 1 .. MaxAdds, d \in Updates : StorageUpdate(id, d)
    \/ \E id \in 1 .. MaxAdds : StorageDelete(id)

SpecStorage == InitStorage /\ [][NextStorage]_vars

\* C40: the ids Storage.add assigns are unique within an entity type: after
\* any sequence of add and delete no two stored entities have the same id, so
\* that get (and update) by the id of a stored entity addresses that entity.
C40_IdsUnique ==
    /\ \A j, k \in DOMAIN store : j # k => store[j].id # store[k].id
    /\ \A k \in DOMAIN store : StorageGet(store, store[k].id) = <<store[k]>>

====
